---- MODULE Spec2Model ----
(***************************************************************************)
(* A model of the utility functions of @sveltinio/ts-utils.                *)
(*                                                                         *)
(* The functions are stateless, so the state of the model is the record of *)
(* the most recent call: which function was called, with which arguments,  *)
(* what it produced (a Success, a Failure, or a thrown exception), what    *)
(* the first argument looks like after the call (to observe mutation) and  *)
(* whether the returned array is the very object that was passed in.       *)
(*                                                                         *)
(* JavaScript values are tagged records.  A string is the sequence of its  *)
(* characters, an array the sequence of its elements, a plain object the   *)
(* sequence of its own <<key, value>> entries in property order.           *)
(***************************************************************************)
EXTENDS Integers, Sequences, FiniteSets, TLC

VARIABLES op, args, res, post, alias, checker, manager, dom, history

vars == <<op, args, res, post, alias, checker, manager, dom, history>>

(***************************************************************************)
(* Bounds of the model.                                                    *)
(***************************************************************************)
MaxLen == 3
MaxNum == 3

(***************************************************************************)
(* JavaScript values.                                                      *)
(***************************************************************************)
Undefined == [t |-> "undefined"]
Null == [t |-> "null"]
NaN == [t |-> "nan"]
Num(n) == [n |-> n, t |-> "number"]
Bool(b) == [b |-> b, t |-> "boolean"]
Str(s) == [s |-> s, t |-> "string"]
Arr(a) == [a |-> a, t |-> "array"]
Obj(o) == [o |-> o, t |-> "object"]

\* The own keys of an object, and the value stored under one of them.
Keys(v) == {v.o[i][1] : i \in 1..Len(v.o)}
ValueAt(v, key) == v.o[CHOOSE i \in 1..Len(v.o) : v.o[i][1] = key][2]

\* typeof value
TypeOf(v) ==
    CASE v.t = "nan" -> "number"
      [] v.t = "null" -> "object"
      [] v.t = "array" -> "object"
      [] OTHER -> v.t

(***************************************************************************)
(* The outcome of a call: neverthrow's ok(value) and err(new Error(msg)),  *)
(* and an exception that leaves the function.  The message of a Failure    *)
(* built as '[ns] reason' is kept as its two parts, the text between the   *)
(* brackets and the text after the space that follows them.  A message     *)
(* built from a template literal keeps the interpolated text apart, as its *)
(* subject, with "%" in its place in the text.                             *)
(***************************************************************************)
Ok(v) == [kind |-> "ok", value |-> v]
\* A value a function returns that is not wrapped in a Result.
Plain(v) == [kind |-> "value", value |-> v]
ErrAbout(ns, subject, reason) ==
    [kind |-> "err", ns |-> ns, reason |-> reason, subject |-> subject]
Err(ns, reason) == ErrAbout(ns, << >>, reason)
ThrowAbout(name, subject, msg) ==
    [kind |-> "throw", msg |-> msg, name |-> name, subject |-> subject]
Throw(name, msg) == ThrowAbout(name, << >>, msg)

\* What a function did: its outcome, its first argument after the call, and
\* whether the value it returned is the object it was given.
Did(r, p, s) == [alias |-> s, post |-> p, res |-> r]

(***************************************************************************)
(* src/is/index.ts                                                         *)
(***************************************************************************)
isBool(v) == TypeOf(v) = "boolean"

isNumber(v) == TypeOf(v) = "number"

isString(v) == TypeOf(v) = "string"

isArray(v) == v.t = "array"

isObject(v) == TypeOf(v) = "object" /\ TypeOf(v) # "function"

isNullish(v) == v = Null \/ v = Undefined

isNull(v) == v = Null

isUndefined(v) == v = Undefined

\* isDefined without the look into the elements of an array.
isDefinedWhateverTheElements(v) == ~isNull(v) /\ ~isUndefined(v) /\ v.t # "nan"

isDefined(v) ==
    IF isObject(v) /\ v.t = "array"
    THEN \A i \in 1..Len(v.a) : ~isNullish(v.a[i])
    ELSE ~isNull(v) /\ ~isUndefined(v) /\ v.t # "nan"

\* Every object of the model has Object.prototype as its prototype.
isPlainObject(v) ==
    IF ~isDefined(v) \/ TypeOf(v) # "object" \/ v = Null \/ v.t = "array"
    THEN FALSE
    ELSE TRUE

isEmpty(v) ==
    IF ~isDefined(v) THEN TRUE
    ELSE CASE TypeOf(v) = "string" -> Len(v.s) = 0
           [] TypeOf(v) = "object" ->
                IF v.t = "array" THEN Len(v.a) = 0 ELSE Len(v.o) = 0
           [] OTHER -> TRUE

(***************************************************************************)
(* Strings of the language: code units, comparison, String(v), Number(v).  *)
(***************************************************************************)
\* The printable ASCII characters in code-unit order, from 32 (space) on
\* (code unit 96, the grave accent, is written <grave>).
Ascii ==
    <<" ", "!", "\"", "#", "$", "%", "&", "'", "(", ")", "*", "+", ",", "-", ".", "/",
      "0", "1", "2", "3", "4", "5", "6", "7", "8", "9", ":", ";", "<", "=", ">", "?",
      "@", "A", "B", "C", "D", "E", "F", "G", "H", "I", "J", "K", "L", "M", "N", "O",
      "P", "Q", "R", "S", "T", "U", "V", "W", "X", "Y", "Z", "[", "\\", "]", "^", "_",
      "<grave>", "a", "b", "c", "d", "e", "f", "g", "h", "i", "j", "k", "l", "m", "n", "o",
      "p", "q", "r", "s", "t", "u", "v", "w", "x", "y", "z", "{", "|", "}", "~">>

\* The UTF-16 code unit of a character.
CharCode(c) == 31 + (CHOOSE i \in 1..Len(Ascii) : Ascii[i] = c)

IsDigit(c) == c \in {"0", "1", "2", "3", "4", "5", "6", "7", "8", "9"}

\* s < t for two strings: the first differing code unit decides, a proper
\* prefix is smaller.
RECURSIVE StrLess(_, _)
StrLess(s, t) ==
    IF Len(t) = 0 THEN FALSE
    ELSE IF Len(s) = 0 THEN TRUE
    ELSE IF CharCode(Head(s)) # CharCode(Head(t))
         THEN CharCode(Head(s)) < CharCode(Head(t))
         ELSE StrLess(Tail(s), Tail(t))

\* The decimal digits of a natural number.
RECURSIVE Digits(_)
Digits(n) ==
    LET d == <<"0", "1", "2", "3", "4", "5", "6", "7", "8", "9">>
    IN IF n < 10 THEN <<d[n + 1]>> ELSE Digits(n \div 10) \o <<d[(n % 10) + 1]>>

RECURSIVE JoinStrings(_, _)
JoinStrings(parts, sep) ==
    IF Len(parts) = 0 THEN << >>
    ELSE IF Len(parts) = 1 THEN parts[1]
    ELSE parts[1] \o sep \o JoinStrings(Tail(parts), sep)

\* String(v), as a sequence of characters.
RECURSIVE ToStr(_)
ToStr(v) ==
    CASE v.t = "undefined" -> <<"u", "n", "d", "e", "f", "i", "n", "e", "d">>
      [] v.t = "null" -> <<"n", "u", "l", "l">>
      [] v.t = "nan" -> <<"N", "a", "N">>
      [] v.t = "number" -> IF v.n < 0 THEN <<"-">> \o Digits(0 - v.n) ELSE Digits(v.n)
      [] v.t = "boolean" -> IF v.b THEN <<"t", "r", "u", "e">> ELSE <<"f", "a", "l", "s", "e">>
      [] v.t = "string" -> v.s
      [] v.t = "array" ->
            JoinStrings([i \in 1..Len(v.a) |->
                            IF v.a[i] = Null \/ v.a[i] = Undefined THEN << >> ELSE ToStr(v.a[i])],
                        <<",">>)
      [] v.t = "object" ->
            <<"[", "o", "b", "j", "e", "c", "t", " ", "O", "b", "j", "e", "c", "t", "]">>

\* The value of a string of decimal digits.
RECURSIVE DigitsValue(_)
DigitsValue(s) ==
    IF Len(s) = 0 THEN 0
    ELSE 10 * DigitsValue(SubSeq(s, 1, Len(s) - 1)) + (CharCode(s[Len(s)]) - 48)

TrimStart(s) ==
    LET k == CHOOSE k \in 0..Len(s) :
                /\ \A i \in 1..k : s[i] = " "
                /\ (k < Len(s) => s[k + 1] # " ")
    IN SubSeq(s, k + 1, Len(s))

TrimEnd(s) ==
    LET k == CHOOSE k \in 0..Len(s) :
                /\ \A i \in (k + 1)..Len(s) : s[i] = " "
                /\ (k > 0 => s[k] # " ")
    IN SubSeq(s, 1, k)

Trim(s) == TrimEnd(TrimStart(s))

\* Number(v) for a primitive v: NaN or Num(n).
ToNumber(v) ==
    CASE v.t = "undefined" -> NaN
      [] v.t = "null" -> Num(0)
      [] v.t = "nan" -> NaN
      [] v.t = "number" -> v
      [] v.t = "boolean" -> IF v.b THEN Num(1) ELSE Num(0)
      [] v.t = "string" ->
            LET s == Trim(v.s)
            IN IF Len(s) = 0 THEN Num(0)
               ELSE IF \A i \in 1..Len(s) : IsDigit(s[i]) THEN Num(DigitsValue(s))
               ELSE NaN

\* ToPrimitive(v) with hint number: arrays and objects become their string.
ToPrimitive(v) == IF v.t \in {"array", "object"} THEN Str(ToStr(v)) ELSE v

\* a < b, the relational operator of the language.
JsLess(a, b) ==
    LET pa == ToPrimitive(a)
        pb == ToPrimitive(b)
    IN IF pa.t = "string" /\ pb.t = "string" THEN StrLess(pa.s, pb.s)
       ELSE LET na == ToNumber(pa)
                nb == ToNumber(pb)
            IN IF na = NaN \/ nb = NaN THEN FALSE ELSE na.n < nb.n

\* a > b
JsGreater(a, b) == JsLess(b, a)

\* str.split(sep) for a one-character separator.
RECURSIVE Split(_, _)
Split(s, sep) ==
    IF \A i \in 1..Len(s) : s[i] # sep THEN <<s>>
    ELSE LET k == CHOOSE k \in 1..Len(s) : s[k] = sep /\ \A i \in 1..(k - 1) : s[i] # sep
         IN <<SubSeq(s, 1, k - 1)>> \o Split(SubSeq(s, k + 1, Len(s)), sep)

(***************************************************************************)
(* Property access.                                                        *)
(***************************************************************************)
LENGTH == <<"l", "e", "n", "g", "t", "h">>

IsIndexOf(key, a) ==
    /\ Len(key) > 0
    /\ \A i \in 1..Len(key) : IsDigit(key[i])
    /\ Digits(DigitsValue(key)) = key
    /\ DigitsValue(key) < Len(a)

\* key in v, for an object or an array v.  The members inherited from
\* Object.prototype and Array.prototype are outside the keys of the model.
HasIn(key, v) ==
    IF v.t = "array" THEN key = LENGTH \/ IsIndexOf(key, v.a)
    ELSE key \in Keys(v)

\* v[key] for a v that is neither null nor undefined.
Get(v, key) ==
    CASE v.t = "object" -> IF key \in Keys(v) THEN ValueAt(v, key) ELSE Undefined
      [] v.t = "array" ->
            IF key = LENGTH THEN Num(Len(v.a))
            ELSE IF IsIndexOf(key, v.a) THEN v.a[DigitsValue(key) + 1]
            ELSE Undefined
      [] v.t = "string" ->
            IF key = LENGTH THEN Num(Len(v.s))
            ELSE IF IsIndexOf(key, v.s) THEN Str(<<v.s[DigitsValue(key) + 1]>>)
            ELSE Undefined
      [] OTHER -> Undefined


(***************************************************************************)
(* src/collections/index.ts: sortBy                                        *)
(***************************************************************************)
ASC == Str(<<"a", "s", "c">>)
DESC == Str(<<"d", "e", "s", "c">>)
DOT == "."

Compared(v) == [thrown |-> FALSE, v |-> v]
Thrown(e) == [error |-> e, thrown |-> TRUE]

\* The comparator sortBy hands to Array.prototype.sort.  It walks both
\* elements down the dotted path, throws when a segment is not `in` one of
\* them, and compares what it finds with > and <.
RECURSIVE sortByCompare(_, _, _, _, _, _)
sortByCompare(a, b, propsArray, i, iteratee, order) ==
    IF i > Len(propsArray)
    THEN LET r == IF JsGreater(a, b) THEN 1 ELSE IF JsLess(a, b) THEN -1 ELSE 0
         IN Compared(IF order = ASC THEN r ELSE IF order = DESC THEN r * (-1) ELSE r)
    ELSE LET prop == propsArray[i]
             notIn == Thrown(ThrowAbout("Error", iteratee, "% is not a property of the object!"))
             badIn == Thrown(Throw("TypeError", "Cannot use 'in' operator"))
         IN IF a.t \notin {"object", "array"} THEN badIn
            ELSE IF ~HasIn(prop, a) THEN notIn
            ELSE IF b.t \notin {"object", "array"} THEN badIn
            ELSE IF ~HasIn(prop, b) THEN notIn
            ELSE sortByCompare(Get(a, prop), Get(b, prop), propsArray, i + 1, iteratee, order)

\* Array.prototype.sort on a list without holes and without undefined: the
\* engine does not call the comparator for fewer than two elements; for more
\* it sorts a copy of the elements with a stable comparison sort (modelled as
\* insertion sort) and writes the copy back, so an exception from the
\* comparator leaves the array as it was.
RECURSIVE InsertSorted(_, _, _, _, _, _)
InsertSorted(sorted, x, j, propsArray, iteratee, order) ==
    IF j = 0 THEN Compared(<<x>> \o sorted)
    ELSE LET c == sortByCompare(sorted[j], x, propsArray, 1, iteratee, order)
         IN IF c.thrown THEN c
            ELSE IF c.v > 0 THEN InsertSorted(sorted, x, j - 1, propsArray, iteratee, order)
            ELSE Compared(SubSeq(sorted, 1, j) \o <<x>> \o SubSeq(sorted, j + 1, Len(sorted)))

RECURSIVE ArraySort(_, _, _, _, _)
ArraySort(list, n, propsArray, iteratee, order) ==
    IF n <= 1 THEN Compared(SubSeq(list, 1, n))
    ELSE LET before == ArraySort(list, n - 1, propsArray, iteratee, order)
         IN IF before.thrown THEN before
            ELSE InsertSorted(before.v, list[n], n - 1, propsArray, iteratee, order)

\* sortBy with a comparator that never reverses: 'desc' sorts like 'asc'.
sortByAscendingOnly(arr, iteratee, orderArg) ==
    IF ~isDefined(arr) \/ isEmpty(arr)
    THEN Did(Err("collections.sortBy", "Input must be an array and cannot be empty"),
             arr, FALSE)
    ELSE IF ~isString(iteratee)
    THEN Did(Err("collections.sortBy", "Expected string value for the iteratee parameter"),
             arr, FALSE)
    ELSE IF arr.t # "array"
    THEN Did(Throw("TypeError", "arr.sort is not a function"), arr, FALSE)
    ELSE LET sorted == ArraySort(arr.a, Len(arr.a), Split(iteratee.s, DOT), iteratee.s, ASC)
         IN IF sorted.thrown
            THEN Did(sorted.error, arr, FALSE)
            ELSE Did(Ok(Arr(sorted.v)), Arr(sorted.v), TRUE)

sortBy(arr, iteratee, orderArg) ==
    LET order == IF orderArg = Undefined THEN ASC ELSE orderArg
    IN IF ~isDefined(arr) \/ isEmpty(arr)
       THEN Did(Err("collections.sortBy", "Input must be an array and cannot be empty"),
                arr, FALSE)
       ELSE IF ~isString(iteratee)
       THEN Did(Err("collections.sortBy", "Expected string value for the iteratee parameter"),
                arr, FALSE)
       ELSE IF arr.t # "array"
       THEN Did(Throw("TypeError", "arr.sort is not a function"), arr, FALSE)
       ELSE LET sorted == ArraySort(arr.a, Len(arr.a), Split(iteratee.s, DOT), iteratee.s, order)
            IN IF sorted.thrown
               THEN Did(sorted.error, arr, FALSE)
               ELSE Did(Ok(Arr(sorted.v)), Arr(sorted.v), TRUE)


(***************************************************************************)
(* src/collections/index.ts: groupedByOne, groupedByMany                   *)
(***************************************************************************)
\* The first occurrence of every value of a list, in order: the order of
\* the elements of a Set, and of the keys of an object, built from the list.
RECURSIVE SetOrder(_, _, _)
SetOrder(a, i, seen) ==
    IF i > Len(a) THEN seen
    ELSE SetOrder(a, i + 1,
                  IF \E j \in 1..Len(seen) : seen[j] = a[i] THEN seen ELSE Append(seen, a[i]))

GROUP == <<"g", "r", "o", "u", "p">>
ITEMS == <<"i", "t", "e", "m", "s">>

\* The properties every object literal inherits from Object.prototype.
ObjectPrototypeKeys ==
    {<<"c", "o", "n", "s", "t", "r", "u", "c", "t", "o", "r">>,
     <<"t", "o", "S", "t", "r", "i", "n", "g">>,
     <<"v", "a", "l", "u", "e", "O", "f">>,
     <<"t", "o", "L", "o", "c", "a", "l", "e", "S", "t", "r", "i", "n", "g">>,
     <<"h", "a", "s", "O", "w", "n", "P", "r", "o", "p", "e", "r", "t", "y">>,
     <<"i", "s", "P", "r", "o", "t", "o", "t", "y", "p", "e", "O", "f">>,
     <<"p", "r", "o", "p", "e", "r", "t", "y", "I", "s", "E", "n", "u", "m", "e", "r", "a", "b", "l", "e">>,
     <<"_", "_", "p", "r", "o", "t", "o", "_", "_">>}

\* groups[k] = groups[k] || []; groups[k].push(item), on the groups kept in
\* the order in which their keys were created.  The groups are the own
\* properties of an object literal: reading a key it does not own but
\* inherits yields the inherited member, which is truthy and has no push.
PushToGroup(groups, k, item) ==
    IF \E i \in 1..Len(groups) : groups[i].k = k
    THEN Compared([i \in 1..Len(groups) |->
                     IF groups[i].k = k
                     THEN [items |-> Append(groups[i].items, item), k |-> k]
                     ELSE groups[i]])
    ELSE IF k \in ObjectPrototypeKeys
    THEN Thrown(Throw("TypeError", "push is not a function"))
    ELSE Compared(Append(groups, [items |-> <<item>>, k |-> k]))

\* A key that is an array index ("0", "1", "25", ...).
IsIntegerKey(k) ==
    /\ Len(k) > 0
    /\ \A i \in 1..Len(k) : IsDigit(k[i])
    /\ Digits(DigitsValue(k)) = k

RECURSIVE AscendingKeys(_, _)
AscendingKeys(groups, S) ==
    IF S = {} THEN << >>
    ELSE LET m == CHOOSE i \in S :
                    \A j \in S : DigitsValue(groups[i].k) <= DigitsValue(groups[j].k)
         IN <<groups[m]>> \o AscendingKeys(groups, S \ {m})

\* Object.entries(groups): integer keys first, in ascending order, then the
\* other keys in the order of their creation.
ObjectEntries(groups) ==
    AscendingKeys(groups, {i \in 1..Len(groups) : IsIntegerKey(groups[i].k)})
        \o SelectSeq(groups, LAMBDA g : ~IsIntegerKey(g.k))

\* obj?.[prop]
OptionalGet(obj, prop) == IF isNullish(obj) THEN Undefined ELSE Get(obj, prop)

RECURSIVE ReducePath(_, _, _)
ReducePath(obj, parts, i) ==
    IF i > Len(parts) THEN obj
    ELSE ReducePath(OptionalGet(obj, parts[i]), parts, i + 1)

\* A value as a condition: false, 0, NaN, "", null and undefined are falsy.
Truthy(v) ==
    CASE v.t \in {"undefined", "null", "nan"} -> FALSE
      [] v.t = "boolean" -> v.b
      [] v.t = "number" -> v.n # 0
      [] v.t = "string" -> Len(v.s) > 0
      [] OTHER -> TRUE

getIncludedProps(item, propertiesToInclude) ==
    IF Truthy(propertiesToInclude) /\ JsGreater(Get(propertiesToInclude, LENGTH), Num(0))
    THEN LET props == [i \in 1..Len(propertiesToInclude.a) |-> ToStr(propertiesToInclude.a[i])]
             names == SetOrder(props, 1, << >>)
         IN Obj([i \in 1..Len(names) |-> <<names[i], Get(item, names[i])>>])
    ELSE item

mapToGroupedObject(entry, propertiesToInclude) ==
    Obj(<< <<GROUP, Str(entry.k)>>,
           <<ITEMS, Arr([i \in 1..Len(entry.items) |->
                           getIncludedProps(entry.items[i], propertiesToInclude)])>> >>)

RECURSIVE groupedByOneReduce(_, _, _, _)
groupedByOneReduce(collection, key, n, grouped) ==
    IF n > Len(collection) THEN Compared(grouped)
    ELSE LET item == collection[n]
             groupKey == ReducePath(item, Split(key, DOT), 1)
             stringKey == ToStr(groupKey)
             pushed == PushToGroup(grouped, stringKey, item)
         IN IF pushed.thrown THEN pushed
            ELSE groupedByOneReduce(collection, key, n + 1, pushed.v)

groupedByOne(arr, key, propertiesToInclude) ==
    IF ~isArray(arr) \/ isEmpty(arr)
    THEN Did(Err("collections.groupedByOne", "Input must be an array and cannot be empty"),
             arr, FALSE)
    ELSE IF ~isString(key)
    THEN Did(Err("collections.groupedByOne", "Expected string value for the key parameter"),
             arr, FALSE)
    ELSE IF isDefined(propertiesToInclude) /\ ~isArray(propertiesToInclude)
    THEN Did(Err("collections.groupedByOne", "Expected array for the key propertiesToInclude"),
             arr, FALSE)
    ELSE LET groups == groupedByOneReduce(arr.a, key.s, 1, << >>)
             entries == ObjectEntries(groups.v)
             grouped == [i \in 1..Len(entries) |->
                            mapToGroupedObject(entries[i], propertiesToInclude)]
         IN IF groups.thrown THEN Did(groups.error, arr, FALSE)
            ELSE Did(Ok(Arr(grouped)), arr, FALSE)

\* src/objects: getPropertyValue(obj, prop)
RECURSIVE getPropertyValueFrom(_, _, _)
getPropertyValueFrom(value, parts, i) ==
    IF i > Len(parts) THEN value
    ELSE IF isNullish(value) THEN Undefined
    ELSE getPropertyValueFrom(Get(value, parts[i]), parts, i + 1)

getPropertyValue(obj, prop) == getPropertyValueFrom(obj, Split(ToStr(prop), DOT), 1)

RECURSIVE PushToGroups(_, _, _, _)
PushToGroups(groups, values, j, obj) ==
    IF j > Len(values) THEN Compared(groups)
    ELSE LET pushed == PushToGroup(groups, ToStr(values[j]), obj)
         IN IF pushed.thrown THEN pushed
            ELSE PushToGroups(pushed.v, values, j + 1, obj)

RECURSIVE groupedByManyEach(_, _, _, _)
groupedByManyEach(collection, key, n, groups) ==
    IF n > Len(collection) THEN Compared(groups)
    ELSE LET obj == collection[n]
             propValue == getPropertyValue(obj, key)
             values == IF propValue.t = "array" THEN propValue.a ELSE <<propValue>>
             pushed == PushToGroups(groups, values, 1, obj)
         IN IF pushed.thrown THEN pushed
            ELSE groupedByManyEach(collection, key, n + 1, pushed.v)

groupedByMany(arr, key, propertiesToInclude) ==
    IF ~isDefined(arr) \/ isEmpty(arr)
    THEN Did(Err("collections.groupedByMany", "Input must be an array and cannot be empty"),
             arr, FALSE)
    ELSE IF ~isString(key)
    THEN Did(Err("collections.groupedByMany", "Expected string value for the key parameter"),
             arr, FALSE)
    ELSE IF isDefined(propertiesToInclude) /\ ~isArray(propertiesToInclude)
    THEN Did(Err("collections.groupedByMany", "Expected array for the key propertiesToInclude"),
             arr, FALSE)
    ELSE IF arr.t # "array"
    THEN Did(Throw("TypeError", "collection.forEach is not a function"), arr, FALSE)
    ELSE LET groups == groupedByManyEach(arr.a, key, 1, << >>)
             entries == ObjectEntries(groups.v)
             grouped == [i \in 1..Len(entries) |->
                            mapToGroupedObject(entries[i], propertiesToInclude)]
         IN IF groups.thrown THEN Did(groups.error, arr, FALSE)
            ELSE Did(Ok(Arr(grouped)), arr, FALSE)


(***************************************************************************)
(* src/collections/index.ts: shuffle, shuffleByProperty, pickRandom, uniq  *)
(*                                                                         *)
(* Math.floor(Math.random() * length) is an arbitrary index in             *)
(* 0..length-1; rnd[i] is the one drawn in the i-th iteration of the loop. *)
(***************************************************************************)
\* A swap without the temporary pair: a[i] = a[j]; a[j] = a[i].
SwapWithoutTemporary(a, i, j) ==
    LET a1 == [a EXCEPT ![i] = a[j]]
    IN [a1 EXCEPT ![j] = a1[i]]

\* [a[i], a[j]] = [a[j], a[i]] on 1-based positions.
Swap(a, i, j) ==
    LET tmp == <<a[j], a[i]>>
        a1 == [a EXCEPT ![i] = tmp[1]]
    IN [a1 EXCEPT ![j] = tmp[2]]

RECURSIVE shuffleLoop(_, _, _)
shuffleLoop(a, i, rnd) ==
    IF i > Len(a) THEN a
    ELSE shuffleLoop(Swap(a, i, rnd[i] + 1), i + 1, rnd)

shuffle(arr, rnd) ==
    IF ~isArray(arr)
    THEN Did(Err("collections.shuffle", "Input is not an array."), arr, FALSE)
    ELSE IF \E i \in 1..Len(arr.a) : isNullish(arr.a[i])
    THEN Did(Err("collections.shuffle", "Input array cannot contains null or undefined valyues."),
             arr, FALSE)
    ELSE LET shuffled == shuffleLoop(arr.a, 1, rnd)
         IN Did(Ok(Arr(shuffled)), Arr(shuffled), FALSE)

shuffleByProperty(arr, key, rnd) ==
    IF ~isArray(arr)
    THEN Did(Err("collections.shuffleObjectsByProperty", "Input is not an array."), arr, FALSE)
    ELSE IF \E i \in 1..Len(arr.a) :
                isNullish(arr.a[i]) \/ isNullish(Get(arr.a[i], ToStr(key)))
    THEN Did(Err("collections.shuffleObjectsByProperty", "All array elements must be defined."),
             arr, FALSE)
    ELSE LET newArr == [i \in 1..Len(arr.a) |-> arr.a[i]]
         IN Did(Ok(Arr(shuffleLoop(newArr, 1, rnd))), arr, FALSE)

\* A slice that takes the element at end as well: a.slice(0, end + 1).
SliceThroughEnd(a, end) ==
    LET len == Len(a)
        relEnd == IF end.t = "nan" THEN 0 ELSE end.n + 1
        final == IF relEnd < 0
                 THEN (IF len + relEnd > 0 THEN len + relEnd ELSE 0)
                 ELSE (IF relEnd < len THEN relEnd ELSE len)
    IN SubSeq(a, 1, final)

\* a.slice(0, end) for a number end (an integer or NaN).
SliceFromZero(a, end) ==
    LET len == Len(a)
        relEnd == IF end.t = "nan" THEN 0 ELSE end.n
        final == IF relEnd < 0
                 THEN (IF len + relEnd > 0 THEN len + relEnd ELSE 0)
                 ELSE (IF relEnd < len THEN relEnd ELSE len)
    IN SubSeq(a, 1, final)

pickRandom(arr, quantityArg, rnd) ==
    LET quantity == IF quantityArg = Undefined THEN Num(1) ELSE quantityArg
    IN IF ~isArray(arr)
       THEN Did(Err("collections.pickRandom", "Input is not an array."), arr, FALSE)
       ELSE IF /\ ~(\A i \in 1..Len(arr.a) : isNumber(arr.a[i]))
               /\ ~(\A i \in 1..Len(arr.a) : isString(arr.a[i]))
               /\ ~(\A i \in 1..Len(arr.a) : isBool(arr.a[i]))
       THEN Did(Err("collections.pickRandomValues",
                    "Input array can contains numbers, strings and booleans only."),
                arr, FALSE)
       ELSE IF ~isNumber(quantity)
       THEN Did(Err("collections.pickRandom", "quantity param must be a number."), arr, FALSE)
       ELSE LET sh == shuffle(arr, rnd)
            IN IF sh.res.kind = "ok"
               THEN LET shuffled == sh.res.value
                    IN Did(Ok(IF quantity = Num(1)
                              THEN Get(shuffled, <<"0">>)
                              ELSE Arr(SliceFromZero(shuffled.a, quantity))),
                           sh.post, FALSE)
               ELSE Did(sh.res, sh.post, FALSE)

uniq(arr) ==
    IF ~isArray(arr)
    THEN Did(Err("collections.uniq", "Input must be an array."), arr, FALSE)
    ELSE Did(Ok(Arr(SetOrder(arr.a, 1, << >>))), arr, FALSE)

\* Array.prototype.includes compares with SameValueZero: NaN is found, and an
\* object or an array is found only if it is the very element, which a value
\* built by the caller is not.
SameValueZero(a, b) ==
    IF a.t \in {"object", "array"} \/ b.t \in {"object", "array"} THEN FALSE ELSE a = b

Includes(a, value) == \E i \in 1..Len(a) : SameValueZero(a[i], value)

\* contains returns a plain boolean; an array of values is checked element
\* by element with contains itself.
RECURSIVE containsValue(_, _)
containsValue(arr, value) ==
    IF ~isArray(arr) THEN FALSE
    ELSE IF /\ ~(\A i \in 1..Len(arr.a) : isNumber(arr.a[i]))
            /\ ~(\A i \in 1..Len(arr.a) : isString(arr.a[i]))
            /\ ~(\A i \in 1..Len(arr.a) : isBool(arr.a[i]))
    THEN FALSE
    ELSE IF value.t = "array"
    THEN \A i \in 1..Len(value.a) : containsValue(arr, value.a[i])
    ELSE LET tmpRes == Includes(arr.a, value)
         IN IF isNumber(value) \/ isBool(value) THEN tmpRes ELSE ~isEmpty(value) /\ tmpRes

contains(arr, value) == Did(Plain(Bool(containsValue(arr, value))), arr, FALSE)

(***************************************************************************)
(* src/objects/index.ts                                                    *)
(***************************************************************************)
\* a === b.  Two objects, or two arrays, are equal when they are the same
\* object; the ones compared here are always built separately.
StrictEquals(a, b) ==
    IF a.t = "nan" \/ b.t = "nan" THEN FALSE
    ELSE IF a.t \in {"object", "array"} \/ b.t \in {"object", "array"} THEN FALSE
    ELSE a = b

\* Object.entries(v) for a value that is neither null nor undefined.
Entries(v) ==
    CASE v.t = "object" -> v.o
      [] v.t = "array" -> [i \in 1..Len(v.a) |-> <<Digits(i - 1), v.a[i]>>]
      [] v.t = "string" -> [i \in 1..Len(v.s) |-> <<Digits(i - 1), Str(<<v.s[i]>>)>>]
      [] OTHER -> << >>

hasProperty(obj, key) ==
    IF ~isPlainObject(obj)
    THEN Err("objects.hasProperty", "Expected a plain javascript object")
    ELSE IF ~isString(key)
    THEN Err("objects.hasProperty", "Expected a valid property key")
    ELSE Ok(Bool(HasIn(key.s, obj)))

\* The callback of keys.every(...): the value of a Success, and undefined -
\* which every() takes for false - when hasProperty returned a Failure.
hasPropertiesEvery(obj, key) ==
    LET propResult == hasProperty(obj, key)
    IN IF propResult.kind = "ok" THEN propResult.value ELSE Undefined

hasProperties(obj, keys) ==
    IF ~isPlainObject(obj)
    THEN Err("objects.hasProperties", "Expected a plain javascript object")
    ELSE IF ~isArray(keys)
    THEN Err("objects.hasProperties", "Expected an array of object properties")
    ELSE Ok(Bool(\A i \in 1..Len(keys.a) : Truthy(hasPropertiesEvery(obj, keys.a[i]))))

hasPropertyValue(obj, key, value) ==
    LET propResult == hasProperty(obj, key)
    IN IF propResult.kind # "ok" THEN propResult
       ELSE IF ~Truthy(propResult.value)
       THEN ErrAbout("objects.hasPropertyValue", ToStr(key), "Property % does not exist")
       ELSE LET propValue == Get(obj, key.s)
            IN IF TypeOf(propValue) = TypeOf(value) /\ StrictEquals(propValue, value)
               THEN Ok(Bool(TRUE))
               ELSE Ok(Bool(FALSE))

hasPropertiesWithValue(obj, propValues) ==
    IF isNullish(propValues)
    THEN Throw("TypeError", "Cannot convert undefined or null to object")
    ELSE LET entries == Entries(propValues)
             checks == [i \in 1..Len(entries) |->
                            hasPropertyValue(obj, Str(entries[i][1]), entries[i][2])]
             failedChecks == SelectSeq(checks, LAMBDA c : c.kind = "err")
             successChecks == SelectSeq(checks, LAMBDA c : c.kind = "ok" /\ c.value = Bool(FALSE))
         IN IF Len(failedChecks) > 0 THEN failedChecks[1]
            ELSE IF Len(successChecks) > 0 THEN Ok(Bool(FALSE))
            ELSE Ok(Bool(TRUE))

mapToCssVars(obj) ==
    IF ~isPlainObject(obj)
    THEN Err("objects.mapToCssVarsString", "Expected a plain javascript object")
    ELSE LET entries == Entries(obj)
         IN Ok(Str(JoinStrings([i \in 1..Len(entries) |->
                                   <<"-", "-">> \o entries[i][1] \o <<":", " ">>
                                       \o ToStr(entries[i][2]) \o <<";">>],
                               <<" ">>)))

\* The order of the properties of an object built by assigning the keys in
\* the given order: the integer keys ascending, then the others as assigned.
RECURSIVE AscendingIndices(_)
AscendingIndices(S) ==
    IF S = {} THEN << >>
    ELSE LET m == CHOOSE k \in S : \A j \in S : DigitsValue(k) <= DigitsValue(j)
         IN <<m>> \o AscendingIndices(S \ {m})

PropertyOrder(keys) ==
    AscendingIndices({keys[i] : i \in {j \in 1..Len(keys) : IsIntegerKey(keys[j])}})
        \o SelectSeq(SetOrder(keys, 1, << >>), LAMBDA k : ~IsIntegerKey(k))

\* Object.keys(v) for an object or an array.
ObjectKeys(v) == [i \in 1..Len(Entries(v)) |-> Entries(v)[i][1]]

\* merge returns a plain value, or an exception leaves it: Object.keys(source)
\* throws for the null that isObject lets through.
RECURSIVE merge(_, _)
merge(target, source) ==
    IF isNullish(target) THEN Plain(source)
    ELSE IF ~isObject(target) \/ ~isObject(source) THEN Plain(source)
    ELSE IF isArray(target) /\ isArray(source) THEN Plain(Arr(target.a \o source.a))
    ELSE IF source = Null
    THEN Throw("TypeError", "Cannot convert undefined or null to object")
    ELSE LET keys == PropertyOrder(ObjectKeys(target) \o ObjectKeys(source))
             merged(key) ==
                LET targetValue == Get(target, key)
                    sourceValue == Get(source, key)
                IN IF ~isUndefined(targetValue) /\ ~isUndefined(sourceValue)
                   THEN merge(targetValue, sourceValue)
                   ELSE IF ~isUndefined(sourceValue) THEN Plain(sourceValue)
                   ELSE Plain(targetValue)
         IN IF \E i \in 1..Len(keys) : merged(keys[i]).kind = "throw"
            THEN Throw("TypeError", "Cannot convert undefined or null to object")
            ELSE Plain(Obj([i \in 1..Len(keys) |-> <<keys[i], merged(keys[i]).value>>]))

(***************************************************************************)
(* src/strings/index.ts                                                    *)
(***************************************************************************)

IsUpper(c) == CharCode(c) >= 65 /\ CharCode(c) <= 90
IsLower(c) == CharCode(c) >= 97 /\ CharCode(c) <= 122
IsAlnum(c) == IsUpper(c) \/ IsLower(c) \/ IsDigit(c)
\* \w
IsWordChar(c) == IsAlnum(c) \/ c = "_"

ToUpperChar(c) == IF IsLower(c) THEN Ascii[CharCode(c) - 31 - 32] ELSE c
ToLowerChar(c) == IF IsUpper(c) THEN Ascii[CharCode(c) - 31 + 32] ELSE c

ToUpperCase(s) == [i \in 1..Len(s) |-> ToUpperChar(s[i])]
ToLowerCase(s) == [i \in 1..Len(s) |-> ToLowerChar(s[i])]

\* The length of the longest prefix of s whose characters all satisfy P.
RunLength(s, P(_)) ==
    CHOOSE k \in 0..Len(s) :
        /\ \A i \in 1..k : P(s[i])
        /\ (k < Len(s) => ~P(s[k + 1]))

\* s.replace(/\W+|_+/g, rep)
RECURSIVE ReplaceNonWordRuns(_, _)
ReplaceNonWordRuns(s, rep) ==
    IF Len(s) = 0 THEN << >>
    ELSE IF ~IsWordChar(s[1])
    THEN LET k == RunLength(s, LAMBDA c : ~IsWordChar(c))
         IN rep \o ReplaceNonWordRuns(SubSeq(s, k + 1, Len(s)), rep)
    ELSE IF s[1] = "_"
    THEN LET k == RunLength(s, LAMBDA c : c = "_")
         IN rep \o ReplaceNonWordRuns(SubSeq(s, k + 1, Len(s)), rep)
    ELSE <<s[1]>> \o ReplaceNonWordRuns(Tail(s), rep)

\* s.replace(/[^a-zA-Z0-9]+(.)/g, (_, chr) => sep + f(chr)), where f is
\* toUpperCase when upper holds and the identity otherwise.  A run that
\* reaches the end of the string gives up its last character to the group;
\* a single such character at the end is not matched.
RECURSIVE ReplaceBoundaries(_, _, _)
ReplaceBoundaries(s, sep, upper) ==
    IF Len(s) = 0 THEN << >>
    ELSE IF IsAlnum(s[1]) THEN <<s[1]>> \o ReplaceBoundaries(Tail(s), sep, upper)
    ELSE LET k == RunLength(s, LAMBDA c : ~IsAlnum(c))
             f(c) == IF upper THEN ToUpperChar(c) ELSE c
         IN IF k < Len(s)
            THEN sep \o <<f(s[k + 1])>> \o ReplaceBoundaries(SubSeq(s, k + 2, Len(s)), sep, upper)
            ELSE IF k >= 2 THEN sep \o <<f(s[k])>>
            ELSE <<s[1]>>

\* s.replace(/\/+$/g, '')
RemoveTrailingSlashes(s) ==
    LET k == CHOOSE k \in 0..Len(s) :
                /\ \A i \in (k + 1)..Len(s) : s[i] = "/"
                /\ (k > 0 => s[k] # "/")
    IN SubSeq(s, 1, k)

\* s.replace(/[^\w ]+/g, '')
RemoveNonWordNonSpace(s) == SelectSeq(s, LAMBDA c : IsWordChar(c) \/ c = " ")

\* s.replace(/ +/g, '-')
RECURSIVE ReplaceSpaceRuns(_, _)
ReplaceSpaceRuns(s, rep) ==
    IF Len(s) = 0 THEN << >>
    ELSE IF s[1] = " "
    THEN LET k == RunLength(s, LAMBDA c : c = " ")
         IN rep \o ReplaceSpaceRuns(SubSeq(s, k + 1, Len(s)), rep)
    ELSE <<s[1]>> \o ReplaceSpaceRuns(Tail(s), rep)

\* Lowercasing every upper-case letter with no separator put before it.
ReplaceUpperWithoutSeparator(s, sep) == ToLowerCase(s)

\* s.replace(/[A-Z]/g, (chr) => sep + chr.toLowerCase())
RECURSIVE ReplaceUpper(_, _)
ReplaceUpper(s, sep) ==
    IF Len(s) = 0 THEN << >>
    ELSE IF IsUpper(s[1]) THEN sep \o <<ToLowerChar(s[1])>> \o ReplaceUpper(Tail(s), sep)
    ELSE <<s[1]>> \o ReplaceUpper(Tail(s), sep)

\* s.indexOf(sub): the first 0-based position at which sub occurs, or -1.
IndexOf(s, sub) ==
    LET at(p) == p + Len(sub) <= Len(s) /\ SubSeq(s, p + 1, p + Len(sub)) = sub
    IN IF \E p \in 0..Len(s) : at(p)
       THEN CHOOSE p \in 0..Len(s) : at(p) /\ \A q \in 0..(p - 1) : ~at(q)
       ELSE -1

ExpectedString(f) == Err(f, "Expected string value as input")

normalize(str) ==
    IF ~isString(str) THEN ExpectedString("strings.normalize")
    ELSE Ok(Str(ReplaceNonWordRuns(str.s, <<" ">>)))

removeTrailingSlash(str) ==
    IF ~isString(str) THEN ExpectedString("strings.removeTrailingSlash")
    ELSE Ok(Str(RemoveTrailingSlashes(str.s)))

uppercase(str) ==
    IF ~isString(str) THEN ExpectedString("strings.uppercase")
    ELSE Ok(Str(ToUpperCase(str.s)))

lowercase(str) ==
    IF ~isString(str) THEN ExpectedString("strings.lowercase")
    ELSE Ok(Str(ToLowerCase(str.s)))

capitalize(str) ==
    IF ~isString(str) THEN ExpectedString("strings.capitalize")
    ELSE LET n == normalize(str)
         IN IF n.kind # "ok" THEN n
            ELSE LET cleaned == n.value.s
                     charAt0 == IF Len(cleaned) = 0 THEN << >> ELSE <<cleaned[1]>>
                 IN Ok(Str(ToUpperCase(charAt0)
                            \o ToLowerCase(SubSeq(cleaned, 2, Len(cleaned)))))

\* normalize(str).andThen((s) => lowercase(lead + s).map((t) =>
\*     t.replace(re, replacerFunc).trim())), the body of the case conversions.
ConvertCase(str, lead, sep, upper) ==
    LET n == normalize(str)
    IN IF n.kind # "ok" THEN n
       ELSE LET l == lowercase(Str(lead \o n.value.s))
            IN IF l.kind # "ok" THEN l
               ELSE Ok(Str(Trim(ReplaceBoundaries(l.value.s, sep, upper))))

capitalizeAll(str) ==
    IF ~isString(str) THEN ExpectedString("strings.capitalizeAll")
    ELSE ConvertCase(str, <<" ">>, <<" ">>, TRUE)

toTitle(str, capitalizeAllFirstLetters) ==
    IF ~isString(str) THEN ExpectedString("strings.toTitle")
    ELSE IF Truthy(IF capitalizeAllFirstLetters = Undefined
                   THEN Bool(TRUE) ELSE capitalizeAllFirstLetters)
    THEN capitalizeAll(str)
    ELSE capitalize(str)

toSlug(str) ==
    IF ~isString(str) THEN ExpectedString("strings.toSlug")
    ELSE LET n == normalize(str)
         IN IF n.kind # "ok" THEN n
            ELSE LET l == lowercase(n.value)
                 IN IF l.kind # "ok" THEN l
                    ELSE Ok(Str(Trim(ReplaceSpaceRuns(RemoveNonWordNonSpace(l.value.s),
                                                      <<"-">>))))

toSnakeCase(str) ==
    IF ~isString(str) THEN ExpectedString("strings.toSnakeCase")
    ELSE ConvertCase(str, << >>, <<"_">>, FALSE)

toKebabCase(str) ==
    IF ~isString(str) THEN ExpectedString("strings.toKebabCase")
    ELSE ConvertCase(str, << >>, <<"-">>, FALSE)

toCamelCase(str) ==
    IF ~isString(str) THEN ExpectedString("strings.toCamelCase")
    ELSE ConvertCase(str, << >>, << >>, TRUE)

toPascalCase(str) ==
    IF ~isString(str) THEN ExpectedString("strings.toPascalCase")
    ELSE ConvertCase(str, <<" ">>, << >>, TRUE)

camelToSnake(str) ==
    IF ~isString(str) THEN ExpectedString("strings.camelToSnake")
    ELSE LET n == normalize(str)
         IN IF n.kind # "ok" THEN n ELSE Ok(Str(ReplaceUpper(n.value.s, <<"_">>)))

camelToKebab(str) ==
    IF ~isString(str) THEN ExpectedString("strings.camelToKebab")
    ELSE LET n == normalize(str)
         IN IF n.kind # "ok" THEN n ELSE Ok(Str(ReplaceUpper(n.value.s, <<"-">>)))

\* str.indexOf(',') >= 0 with no check of str: a string and an array have an
\* indexOf, null and undefined have no properties, and on any other value
\* str.indexOf is undefined.
isCommaSepareted(str) ==
    CASE str.t = "string" -> Plain(Bool(IndexOf(str.s, <<",">>) >= 0))
      [] str.t = "array" ->
            Plain(Bool(\E i \in 1..Len(str.a) : StrictEquals(str.a[i], Str(<<",">>))))
      [] str.t \in {"null", "undefined"} ->
            Throw("TypeError", "Cannot read properties of null or undefined")
      [] OTHER -> Throw("TypeError", "str.indexOf is not a function")

toCommaSepareted(str) ==
    IF ~isString(str) THEN ExpectedString("strings.toCommaSeparated")
    ELSE Ok(Str(ReplaceNonWordRuns(str.s, <<",">>)))

MetaChars == {"[", "]", "(", ")", "{", "}", "/", "^", "$", ".", "-", "|", "?", "*", "+", "\\"}

\* _escape(value) inside the template literal: a value that is exactly one
\* of the special characters gets a backslash, any other value is left as
\* it is and turned into a string by the template.
_escape(value) ==
    IF value.t = "string" /\ Len(value.s) = 1 /\ value.s[1] \in MetaChars
    THEN <<"\\", value.s[1]>>
    ELSE ToStr(value)

\* The pattern a regular-expression source stands for, for a source made of
\* escaped characters, ordinary characters and dots: a list of atoms, each a
\* character to match or "any".
RECURSIVE RegexAtoms(_)
RegexAtoms(src) ==
    IF Len(src) = 0 THEN << >>
    ELSE IF src[1] = "\\" /\ Len(src) >= 2
    THEN <<[any |-> FALSE, c |-> src[2]]>> \o RegexAtoms(SubSeq(src, 3, Len(src)))
    ELSE IF src[1] = "."
    THEN <<[any |-> TRUE, c |-> "."]>> \o RegexAtoms(Tail(src))
    ELSE <<[any |-> FALSE, c |-> src[1]]>> \o RegexAtoms(Tail(src))

\* Every group a regular-expression source opens is closed, and none is
\* closed that was not opened; the RegExp constructor throws a SyntaxError
\* otherwise.  depth is the number of groups open so far.
RECURSIVE GroupsClose(_, _)
GroupsClose(src, depth) ==
    IF Len(src) = 0 THEN depth = 0
    ELSE IF src[1] = "\\" THEN GroupsClose(SubSeq(src, 3, Len(src)), depth)
    ELSE IF src[1] = "(" THEN GroupsClose(Tail(src), depth + 1)
    ELSE IF src[1] = ")" THEN depth > 0 /\ GroupsClose(Tail(src), depth - 1)
    ELSE GroupsClose(Tail(src), depth)

\* `(?<=${_escape(startsWith)})(.*)(?=${_escape(endsWith)})`
BetweenPattern(startsWith, endsWith) ==
    <<"(", "?", "<", "=">> \o _escape(startsWith) \o <<")", "(", ".", "*", ")", "(", "?", "=">>
        \o _escape(endsWith) \o <<")">>

\* The atoms match the characters of s that follow 0-based position p.
AtomsMatchAt(s, atoms, p) ==
    /\ p >= 0
    /\ p + Len(atoms) <= Len(s)
    /\ \A i \in 1..Len(atoms) : atoms[i].any \/ atoms[i].c = s[p + i]

\* str.match(`(?<=${start})(.*)(?=${end})`): the leftmost position preceded
\* by start, and from there the longest text followed by end.  The pattern
\* is compiled first, and a delimiter that leaves a group open makes that
\* throw.
textBetween(str, startsWith, endsWith) ==
    IF ~isString(str) THEN ExpectedString("strings.textBetween")
    ELSE IF ~GroupsClose(BetweenPattern(startsWith, endsWith), 0)
    THEN Throw("SyntaxError", "Invalid regular expression")
    ELSE LET s == str.s
             startAtoms == RegexAtoms(_escape(startsWith))
             endAtoms == RegexAtoms(_escape(endsWith))
             found(p, q) ==
                /\ p <= q
                /\ AtomsMatchAt(s, startAtoms, p - Len(startAtoms))
                /\ AtomsMatchAt(s, endAtoms, q)
             positions == {p \in 0..Len(s) : \E q \in p..Len(s) : found(p, q)}
         IN IF positions = {} THEN Ok(str)
            ELSE LET p == CHOOSE p \in positions : \A r \in positions : p <= r
                     q == CHOOSE q \in p..Len(s) :
                            found(p, q) /\ \A r \in p..Len(s) : found(p, r) => r <= q
                 IN Ok(Str(Trim(SubSeq(s, p + 1, q))))

removeFirstOccurrence(str, searchstr, trimArg) ==
    LET trim == IF trimArg = Undefined THEN Bool(TRUE) ELSE trimArg
    IN IF ~isString(str) THEN ExpectedString("strings.removeFirstOccurrence")
       ELSE IF ~isString(searchstr)
       THEN Err("strings.removeFirstOccurrence",
                "Expected string value for the searchstr parameter")
       ELSE LET index == IndexOf(str.s, searchstr.s)
            IN IF index = -1 THEN Ok(str)
               ELSE LET start == SubSeq(str.s, 1, index)
                        end == SubSeq(str.s, index + Len(searchstr.s) + 1, Len(str.s))
                    IN IF Truthy(trim)
                       THEN Ok(Str(TrimStart(start) \o TrimEnd(end)))
                       ELSE Ok(Str(start \o end))

(***************************************************************************)
(* src/urls/index.ts                                                       *)
(***************************************************************************)
ExpectedStrings(f) == Err(f, "Expected string values for all parameters")

_trim(value) ==
    LET base == Trim(value.s)
    IN IF base = <<"/">> THEN << >> ELSE base

\* _trim(baseURL).concat('/', folder, '/', filename): concat turns each of
\* its arguments into a string.
_makePathToImageFile(baseURL, folder, filename) ==
    Str(_trim(baseURL) \o <<"/">> \o ToStr(folder) \o <<"/">> \o ToStr(filename))

\* folder = 'images/logos' and filename = 'logo.png' when not given.
defaultImage(baseURL, folderArg, filenameArg) ==
    LET folder == IF folderArg = Undefined
                  THEN Str(<<"i", "m", "a", "g", "e", "s", "/", "l", "o", "g", "o", "s">>)
                  ELSE folderArg
        filename == IF filenameArg = Undefined
                    THEN Str(<<"l", "o", "g", "o", ".", "p", "n", "g">>)
                    ELSE filenameArg
    IN IF ~isString(baseURL) \/ ~isString(folder) \/ ~isString(filename)
       THEN ExpectedStrings("urls.defaultImage")
       ELSE Ok(_makePathToImageFile(baseURL, folder, filename))

\* artifact = '' when not given.  The guard names pathname twice and never
\* filename.
makeImagePath(baseURL, artifactArg, pathname, filename) ==
    LET artifact == IF artifactArg = Undefined THEN Str(<< >>) ELSE artifactArg
    IN IF ~isString(baseURL) \/ ~isString(artifact) \/ ~isString(pathname)
            \/ ~isString(pathname)
       THEN ExpectedStrings("urls.makeImagePath")
       ELSE IF Truthy(filename) /\ ~isEmpty(filename)
       THEN LET between == textBetween(pathname, Str(<<"/">>), Str(<<"/">>))
            IN IF between.kind # "ok" THEN between
               ELSE LET p == between.value
                        folder == IF artifact # Str(<< >>)
                                  THEN Str(artifact.s \o <<"/">> \o p.s)
                                  ELSE p
                    IN Ok(_makePathToImageFile(baseURL, folder, filename))
       ELSE defaultImage(baseURL, Undefined, Undefined)

(***************************************************************************)
(* src/screen-breakpoint/screen-breakpoint-checker.ts                      *)
(***************************************************************************)
XS == <<"x", "s">>
SM == <<"s", "m">>
MD == <<"m", "d">>
LG == <<"l", "g">>
XL == <<"x", "l">>
XXL == <<"2", "x", "l">>
MIN == <<"m", "i", "n">>
MAX == <<"m", "a", "x">>

\* '<n>px'
Px(n) == Digits(n) \o <<"p", "x">>

\* { min: min, max: max } and { min: min }
Range(min, max) == Obj(<< <<MIN, Str(min)>>, <<MAX, Str(max)>> >>)
OpenRange(min) == Obj(<< <<MIN, Str(min)>> >>)

_defaultBreakpoints ==
    Obj(<< <<XS, Range(Px(320), Px(639))>>,
           <<SM, Range(Px(640), Px(767))>>,
           <<MD, Range(Px(768), Px(1023))>>,
           <<LG, Range(Px(1024), Px(1279))>>,
           <<XL, Range(Px(1280), Px(1535))>>,
           <<XXL, OpenRange(Px(1536))>> >>)

\* parseInt(v): the decimal digits that follow the leading spaces and the
\* sign of String(v), or NaN when there is none.
parseInt(v) ==
    LET t == TrimStart(ToStr(v))
        negative == Len(t) > 0 /\ t[1] = "-"
        u == IF Len(t) > 0 /\ t[1] \in {"-", "+"} THEN Tail(t) ELSE t
        k == CHOOSE k \in 0..Len(u) :
                /\ \A i \in 1..k : IsDigit(u[i])
                /\ (k < Len(u) => ~IsDigit(u[k + 1]))
    IN IF k = 0 THEN NaN
       ELSE IF negative THEN Num(0 - DigitsValue(SubSeq(u, 1, k)))
       ELSE Num(DigitsValue(SubSeq(u, 1, k)))

\* a >= b and a <= b for numbers: false when either is NaN.
NumberAtLeast(a, b) == a.t = "number" /\ b.t = "number" /\ a.n >= b.n
NumberAtMost(a, b) == NumberAtLeast(b, a)

\* The fields of a checker: _breakpoints, _mobileScreenWidth and
\* _desktopScreenWidth; constructed is false until the constructor has run.
NoChecker ==
    [breakpoints |-> Undefined, constructed |-> FALSE, desktop |-> Undefined,
     mobile |-> Undefined]

\* new ScreenBreakpointChecker(screens, mobileSize, desktopSize)
NewChecker(screens, mobileSize, desktopSize) ==
    [breakpoints |-> IF Truthy(screens) THEN screens ELSE _defaultBreakpoints,
     constructed |-> TRUE,
     desktop |-> IF Truthy(desktopSize) THEN desktopSize ELSE Num(1024),
     mobile |-> IF Truthy(mobileSize) THEN mobileSize ELSE Num(768)]

isMobile(this, width) == JsLess(width, this.mobile)

isTablet(this, width) ==
    NumberAtLeast(width, this.mobile) /\ JsLess(width, this.desktop)

isDesktop(this, width) == NumberAtLeast(width, this.desktop)

\* A breakpoint whose max is not looked at.
isBreakpointWithoutMax(this, width, breakpoint) ==
    LET currentBreakpoint == Get(this.breakpoints, breakpoint)
    IN IF ~Truthy(currentBreakpoint) THEN FALSE
       ELSE NumberAtLeast(width, parseInt(Get(currentBreakpoint, MIN)))

isBreakpoint(this, width, breakpoint) ==
    LET currentBreakpoint == Get(this.breakpoints, breakpoint)
    IN IF ~Truthy(currentBreakpoint) THEN FALSE
       ELSE /\ NumberAtLeast(width, parseInt(Get(currentBreakpoint, MIN)))
            /\ \/ Get(currentBreakpoint, MAX) = Undefined
               \/ NumberAtMost(width, parseInt(Get(currentBreakpoint, MAX)))

\* The last key, instead of the first, when no breakpoint matches.
getBreakpointNameOrLast(this, width) ==
    LET breakpointKeys == PropertyOrder(ObjectKeys(this.breakpoints))
        matching == {i \in 1..Len(breakpointKeys) :
                        isBreakpoint(this, width, breakpointKeys[i])}
    IN IF matching # {}
       THEN Str(breakpointKeys[CHOOSE i \in matching : \A j \in matching : j <= i])
       ELSE IF Len(breakpointKeys) > 0 THEN Str(breakpointKeys[Len(breakpointKeys)])
       ELSE Undefined

\* The loop from the last key down to the first, then breakpointKeys[0],
\* which is undefined when there is no key.
getBreakpointName(this, width) ==
    LET breakpointKeys == PropertyOrder(ObjectKeys(this.breakpoints))
        matching == {i \in 1..Len(breakpointKeys) :
                        isBreakpoint(this, width, breakpointKeys[i])}
    IN IF matching # {}
       THEN Str(breakpointKeys[CHOOSE i \in matching : \A j \in matching : j <= i])
       ELSE IF Len(breakpointKeys) > 0 THEN Str(breakpointKeys[1])
       ELSE Undefined

\* isXSmallScreen .. isXXLargeScreen: getBreakpointName(width) === name
isNamedScreen(this, width, name) == StrictEquals(getBreakpointName(this, width), Str(name))

NamedScreens ==
    << <<"isXSmallScreen", XS>>, <<"isSmallScreen", SM>>, <<"isMediumScreen", MD>>,
       <<"isLargeScreen", LG>>, <<"isXLargeScreen", XL>>, <<"isXXLargeScreen", XXL>> >>

(***************************************************************************)
(* src/strings/index.ts: ComponentFocusManager                             *)
(***************************************************************************)
\* The elements of the document, each with its textContent: 'Apple',
\* 'Banana', 'avocado' and an element with no text.
Elements == {"e1", "e2", "e3", "e4"}

Elem(e) == [e |-> e, t |-> "element"]

textContent(e) ==
    CASE e = "e1" -> <<"A", "p", "p", "l", "e">>
      [] e = "e2" -> <<"B", "a", "n", "a", "n", "a">>
      [] e = "e3" -> <<"a", "v", "o", "c", "a", "d", "o">>
      [] e = "e4" -> << >>

\* The component ids: the manager's own and a second one.
OwnId == <<"c", "1">>
OtherId == <<"c", "2">>
Ids == {OwnId, OtherId}

\* record[id] for a record of the manager and an id, undefined for an id
\* the record does not hold.
AtId(record, id) == IF id \in Ids THEN record[id] ELSE Undefined

\* The document: the tabIndex of each element (-1 for an element that was
\* given none), the element that received focus() last, and the items
\* whose applyDOMChangesFn promise has not resolved yet, oldest first.
NewDocument ==
    [focused |-> Undefined, pending |-> << >>, tabIndex |-> [e \in Elements |-> -1]]

\* The fields of a manager: _id, _items, _firstChars, _firstItem, _lastItem
\* and _applyDOMChangesFn (the default one, or one given with the setter);
\* constructed is false until the constructor has run.
NoManager ==
    [applyDOMChangesFn |-> "default", constructed |-> FALSE,
     firstChars |-> [i \in Ids |-> Undefined], firstItem |-> [i \in Ids |-> Undefined],
     id |-> OwnId, items |-> [i \in Ids |-> Undefined],
     lastItem |-> [i \in Ids |-> Undefined]]

\* What has happened to the manager so far: the number of run() calls, the
\* items the last run() went over, and the item the most recent focus call
\* since then passed to _setFocusToItem (undefined when none did).
NoHistory == [ranOn |-> Undefined, runs |-> 0, target |-> Undefined]

\* new ComponentFocusManager(componentId)
NewManager(componentId) ==
    [applyDOMChangesFn |-> "default", constructed |-> TRUE,
     firstChars |-> [i \in Ids |-> IF i = componentId THEN Arr(<< >>) ELSE Undefined],
     firstItem |-> [i \in Ids |-> IF i = componentId THEN Null ELSE Undefined],
     id |-> componentId,
     items |-> [i \in Ids |-> IF i = componentId THEN Arr(<< >>) ELSE Undefined],
     lastItem |-> [i \in Ids |-> IF i = componentId THEN Null ELSE Undefined]]

\* item.textContent?.trim().toLowerCase()[0]
menuItemContent(item) ==
    LET text == ToLowerCase(Trim(textContent(item.e)))
    IN IF Len(text) = 0 THEN Undefined ELSE Str(<<text[1]>>)

\* The body of run() for the items from the i-th on: firstChars gets the
\* first character of an item that has one, firstItem is set while it is
\* falsy, and lastItem is set for every item.
RECURSIVE runForEach(_, _, _)
runForEach(this, list, i) ==
    IF i > Len(list) THEN this
    ELSE LET item == list[i]
             c == menuItemContent(item)
             id == this.id
             pushed == IF Truthy(c)
                       THEN [this EXCEPT !.firstChars[id] = Arr(@.a \o <<c>>)]
                       ELSE this
             first == IF ~Truthy(pushed.firstItem[id])
                      THEN [pushed EXCEPT !.firstItem[id] = item]
                      ELSE pushed
         IN runForEach([first EXCEPT !.lastItem[id] = item], list, i + 1)

run(this) == runForEach(this, this.items[this.id].a, 1)

\* The item gets tabIndex 0 and waits for its focus(), and the other items
\* keep the tabIndex they have.
_setFocusToItemKeepingOthers(this, document, item) ==
    IF Truthy(this.items[this.id]) /\ Truthy(item)
    THEN LET list == this.items[this.id].a
         IN [document EXCEPT
                !.tabIndex = [e \in Elements |->
                                IF Elem(e) = item /\ \E i \in 1..Len(list) : list[i] = item
                                THEN 0 ELSE @[e]],
                !.pending = @ \o SelectSeq(list, LAMBDA itemNode : itemNode = item)]
    ELSE document

\* The synchronous part of _setFocusToItem(item): every item of the
\* manager's own component gets tabIndex 0 when it is the item and -1 when
\* it is not, and the item waits for applyDOMChangesFn before its focus().
_setFocusToItem(this, document, item) ==
    IF Truthy(this.items[this.id]) /\ Truthy(item)
    THEN LET list == this.items[this.id].a
             own == {list[i].e : i \in 1..Len(list)}
         IN [document EXCEPT
                !.tabIndex = [e \in Elements |->
                                IF e \notin own THEN @[e]
                                ELSE IF Elem(e) = item THEN 0 ELSE -1],
                !.pending = @ \o SelectSeq(list, LAMBDA itemNode : itemNode = item)]
    ELSE document

\* list.indexOf(item), 0-based, and list[index].
indexOfItem(list, item) ==
    IF \E i \in 1..Len(list) : list[i] = item
    THEN (CHOOSE i \in 1..Len(list) : list[i] = item /\ \A j \in 1..(i - 1) : list[j] # item) - 1
    ELSE -1

itemAt(list, index) == IF index >= 0 /\ index < Len(list) THEN list[index + 1] ELSE Undefined

\* What a focus method does: the value it returns or the exception that
\* leaves it, the item it passed to _setFocusToItem, and the document after.
Focused(result, item, document) == [document |-> document, item |-> item, result |-> result]

CannotReadProperties == Throw("TypeError", "Cannot read properties of undefined")

setFocusToFirstItem(this, document, cId) ==
    LET _id == IF ~isNullish(cId) THEN cId.s ELSE this.id
        item == AtId(this.firstItem, _id)
    IN Focused(Plain(Undefined), item, _setFocusToItem(this, document, item))

setFocusToLastItem(this, document, cId) ==
    LET _id == IF ~isNullish(cId) THEN cId.s ELSE this.id
        item == AtId(this.lastItem, _id)
    IN Focused(Plain(Undefined), item, _setFocusToItem(this, document, item))

setFocusToPreviousItem(this, document, currentItem, cId) ==
    LET _id == IF ~isNullish(cId) THEN cId.s ELSE this.id
    IN IF currentItem = AtId(this.firstItem, _id)
       THEN LET newMenuItem == AtId(this.lastItem, _id)
            IN Focused(Plain(newMenuItem), newMenuItem,
                       _setFocusToItem(this, document, newMenuItem))
       ELSE IF AtId(this.items, _id) = Undefined
       THEN Focused(CannotReadProperties, Undefined, document)
       ELSE LET list == AtId(this.items, _id).a
                index == indexOfItem(list, currentItem)
                newMenuItem == itemAt(list, index - 1)
            IN Focused(Plain(newMenuItem), newMenuItem,
                       _setFocusToItem(this, document, newMenuItem))

\* The next item with no return to the first item after the last one.
setFocusToNextItemWithoutWrap(this, document, currentItem, cId) ==
    LET _id == IF ~isNullish(cId) THEN cId.s ELSE this.id
    IN IF AtId(this.items, _id) = Undefined
       THEN Focused(CannotReadProperties, Undefined, document)
       ELSE LET list == AtId(this.items, _id).a
                index == indexOfItem(list, currentItem)
                newMenuItem == itemAt(list, index + 1)
            IN Focused(Plain(newMenuItem), newMenuItem,
                       _setFocusToItem(this, document, newMenuItem))

setFocusToNextItem(this, document, currentItem, cId) ==
    LET _id == IF ~isNullish(cId) THEN cId.s ELSE this.id
    IN IF currentItem = AtId(this.lastItem, _id)
       THEN LET newMenuItem == AtId(this.firstItem, _id)
            IN Focused(Plain(newMenuItem), newMenuItem,
                       _setFocusToItem(this, document, newMenuItem))
       ELSE IF AtId(this.items, _id) = Undefined
       THEN Focused(CannotReadProperties, Undefined, document)
       ELSE LET list == AtId(this.items, _id).a
                index == indexOfItem(list, currentItem)
                newMenuItem == itemAt(list, index + 1)
            IN Focused(Plain(newMenuItem), newMenuItem,
                       _setFocusToItem(this, document, newMenuItem))

\* firstChars.indexOf(c, start), 0-based.
indexOfFrom(chars, c, start) ==
    LET at == {i \in (start + 1)..Len(chars) : chars[i] = c}
    IN IF at = {} THEN -1 ELSE (CHOOSE i \in at : \A j \in at : i <= j) - 1

setFocusByFirstChar(this, document, currentItem, c) ==
    IF Len(c.s) > 1 THEN Focused(Plain(Undefined), Undefined, document)
    ELSE LET lower == Str(ToLowerCase(c.s))
             list == this.items[this.id].a
             chars == this.firstChars[this.id].a
             after == indexOfItem(list, currentItem) + 1
             start == IF after >= Len(list) THEN 0 ELSE after
             remaining == indexOfFrom(chars, lower, start)
             index == IF remaining = -1 THEN indexOfFrom(chars, lower, 0) ELSE remaining
         IN IF index > -1
            THEN Focused(Plain(Undefined), itemAt(list, index),
                         _setFocusToItem(this, document, itemAt(list, index)))
            ELSE Focused(Plain(Undefined), Undefined, document)

(***************************************************************************)
(* The inputs the calls are tried on.                                      *)
(***************************************************************************)
SeqsUpTo(S, n) == UNION {[1..k -> S] : k \in 0..n}

\* { k: v } and { k1: v1, k2: v2 }
O1(k, v) == Obj(<< <<k, v>> >>)
O2(k1, v1, k2, v2) == Obj(<< <<k1, v1>>, <<k2, v2>> >>)

KA == <<"a">>
KB == <<"b">>
KAB == <<"a", ".", "b">>

\* Values that are not arrays, and arrays holding null or undefined.
NonArrays ==
    {Undefined, Null, NaN, Num(1), Bool(TRUE), Str(<< >>), Str(<<"a", "b">>),
     Obj(<< >>), O1(KA, Num(1))}

NullishArrays == {Arr(<<Null>>), Arr(<<O1(KA, Num(1)), Undefined>>)}

SortElems ==
    {O1(KA, Num(n)) : n \in 1..MaxNum}
        \cup {O1(KA, O1(KB, Num(n))) : n \in 1..2}
        \cup {O1(KA, Str(<<"x">>)), O1(KA, Str(<<"x", "y">>)), O1(KB, Num(1)), Num(1)}

SortInputs == {Arr(a) : a \in SeqsUpTo(SortElems, MaxLen)} \cup NonArrays \cup NullishArrays

Iteratees == {Str(KA), Str(KAB), Str(KB), Num(1)}

Orders == {Undefined, ASC, DESC}

GroupElems ==
    {O1(KA, v) : v \in {Num(1), Str(<<"1">>), Str(<<"x">>), Arr(<<Num(2), Num(1)>>),
                           Arr(<< >>), O1(KB, Num(1)),
                           Str(<<"v", "a", "l", "u", "e", "O", "f">>)}}
        \cup {O1(KB, Num(1)), O2(KA, Num(1), KB, Num(2))}

GroupInputs == {Arr(a) : a \in SeqsUpTo(GroupElems, MaxLen)} \cup NonArrays \cup NullishArrays

IncludedProps == {Undefined, Arr(<< >>), Arr(<<Str(KA)>>), Str(KA)}

PrimitiveArrays ==
    {Arr(a) : a \in SeqsUpTo({Num(n) : n \in 1..MaxNum}, MaxLen)
                      \cup SeqsUpTo({Str(<<"x">>), Str(<<"y">>)}, MaxLen)
                      \cup SeqsUpTo({Bool(TRUE), Bool(FALSE)}, MaxLen)}
        \cup {Arr(<<Num(1), Str(<<"x">>)>>), Arr(<<Num(1), Null>>), Arr(<<Undefined>>)}

ShuffleInputs == PrimitiveArrays \cup NonArrays

PropertyElems ==
    {O1(KA, Num(n)) : n \in 1..MaxNum}
        \cup {O1(KA, Null), O1(KB, Num(1)), Null}

PropertyInputs == {Arr(a) : a \in SeqsUpTo(PropertyElems, MaxLen)} \cup NonArrays

Quantities ==
    {Undefined, NaN, Str(<<"2">>), Num(-1)} \cup {Num(n) : n \in 0..(MaxLen + 1)}

\* Arrays of one type (numbers, strings with the empty one, booleans), a
\* mixed one and values that are no arrays; single values and lists of them.
ContainsInputs ==
    {Arr(a) : a \in SeqsUpTo({Num(1), NaN}, MaxLen)
                      \cup SeqsUpTo({Str(<< >>), Str(<<"x">>)}, MaxLen)
                      \cup SeqsUpTo({Bool(TRUE), Bool(FALSE)}, MaxLen)}
        \cup {Arr(<<Num(1), Str(<<"x">>)>>)} \cup NonArrays

ContainsSingles ==
    {Num(1), Num(2), NaN, Str(<< >>), Str(<<"x">>), Str(<<"y">>), Bool(TRUE), Null,
     Undefined}

ContainsValues == ContainsSingles \cup {Arr(a) : a \in SeqsUpTo(ContainsSingles, 2)}

\* The indices the loop of a shuffle of arr can draw.
RandomChoices(arr) ==
    IF arr.t = "array" THEN [1..Len(arr.a) -> 0..(Len(arr.a) - 1)] ELSE {<< >>}

(***************************************************************************)
(* The state machine: one action per exported function.                    *)
(***************************************************************************)
Init ==
    /\ op = "none"
    /\ args = << >>
    /\ res = [kind |-> "none"]
    /\ post = Undefined
    /\ alias = FALSE
    /\ checker = NoChecker
    /\ manager = NoManager
    /\ dom = NewDocument
    /\ history = NoHistory

\* A call starts from the state in which nothing has been called yet, so
\* every behaviour is one call of one function.
Idle == op = "none"

Call(name, a, did) ==
    /\ op' = name
    /\ args' = a
    /\ res' = did.res
    /\ post' = did.post
    /\ alias' = did.alias
    /\ UNCHANGED <<checker, manager, dom, history>>

CallSortBy ==
    /\ Idle
    /\ \E arr \in SortInputs, iteratee \in Iteratees, order \in Orders :
        Call("sortBy", <<arr, iteratee, order>>, sortBy(arr, iteratee, order))

CallGroupedByOne ==
    /\ Idle
    /\ \E arr \in GroupInputs, key \in Iteratees, props \in IncludedProps :
        Call("groupedByOne", <<arr, key, props>>, groupedByOne(arr, key, props))

CallGroupedByMany ==
    /\ Idle
    /\ \E arr \in GroupInputs, key \in Iteratees, props \in IncludedProps :
        Call("groupedByMany", <<arr, key, props>>, groupedByMany(arr, key, props))

CallShuffle ==
    /\ Idle
    /\ \E arr \in ShuffleInputs :
        \E rnd \in RandomChoices(arr) :
            Call("shuffle", <<arr>>, shuffle(arr, rnd))

CallShuffleByProperty ==
    /\ Idle
    /\ \E arr \in PropertyInputs, key \in {Str(KA), Str(KB)} :
        \E rnd \in RandomChoices(arr) :
            Call("shuffleByProperty", <<arr, key>>, shuffleByProperty(arr, key, rnd))

CallPickRandom ==
    /\ Idle
    /\ \E arr \in ShuffleInputs, quantity \in Quantities :
        \E rnd \in RandomChoices(arr) :
            Call("pickRandom", <<arr, quantity>>, pickRandom(arr, quantity, rnd))

CallUniq ==
    /\ Idle
    /\ \E arr \in ShuffleInputs :
        Call("uniq", <<arr>>, uniq(arr))

CallContains ==
    /\ Idle
    /\ \E arr \in ContainsInputs, value \in ContainsValues :
        Call("contains", <<arr, value>>, contains(arr, value))

NextCollections ==
    \/ CallSortBy
    \/ CallGroupedByOne
    \/ CallGroupedByMany
    \/ CallShuffle
    \/ CallShuffleByProperty
    \/ CallPickRandom
    \/ CallUniq
    \/ CallContains

SpecCollections == Init /\ [][NextCollections]_vars


(***************************************************************************)
(* Calls of the type guards of the is module.                              *)
(***************************************************************************)
GuardElems == {Null, Undefined, NaN, Num(0), Str(<< >>), Arr(<< >>)}

GuardInputs ==
    {Null, Undefined, NaN, Num(0), Num(1), Bool(TRUE), Bool(FALSE), Str(<< >>),
     Str(<<"a">>), Obj(<< >>), O1(KA, Null), O1(KA, Num(1))}
        \cup {Arr(a) : a \in SeqsUpTo(GuardElems, MaxLen)}

CallIsDefined ==
    /\ Idle
    /\ \E value \in GuardInputs :
        Call("isDefined", <<value>>, Did(Plain(Bool(isDefined(value))), value, FALSE))

NextIs == CallIsDefined

SpecIs == Init /\ [][NextIs]_vars


(***************************************************************************)
(* Calls of the functions of the objects module.                           *)
(***************************************************************************)
KC == <<"c">>

ObjectValues == {Num(1), Num(2), Str(<<"x">>), Undefined}

PlainObjects ==
    {Obj(<< >>)}
        \cup {O1(KA, v) : v \in ObjectValues}
        \cup {O2(KA, v, KB, w) : v, w \in ObjectValues}

ObjectInputs == PlainObjects \cup {Undefined, Null, NaN, Num(1), Str(<<"a">>), Arr(<<Num(1)>>)}

KeyInputs == {Str(KA), Str(KB), Str(KC), Num(1), Undefined}

KeyLists == {Arr(a) : a \in SeqsUpTo({Str(KA), Str(KB), Str(KC), Num(1)}, MaxLen)}
                \cup {Undefined, Str(KA)}

Prefixes == {Undefined, Str(<<"p">>), Str(<<"p", "f", "x">>)}

\* Objects to merge: values under the key a (primitives, null, undefined,
\* arrays, nested objects), a second key b, and values that are no objects.
MergeValues ==
    {Num(1), Str(<<"x">>), Null, Undefined, Arr(<<Num(1)>>), Arr(<<Num(2), Num(3)>>),
     O1(KB, Num(1)), O1(KB, Num(2)), O1(KC, Arr(<<Num(1)>>)), O1(KC, Arr(<<Num(2)>>)),
     O1(KC, Null)}

MergeInputs ==
    {Obj(<< >>)}
        \cup {O1(KA, v) : v \in MergeValues}
        \cup {O2(KA, v, KB, w) : v \in MergeValues, w \in {Num(1), Undefined}}
        \cup {O1(KB, Num(2)), Undefined, Null, Num(1), Arr(<<Num(1)>>)}

CallHasProperty ==
    /\ Idle
    /\ \E obj \in ObjectInputs, key \in KeyInputs :
        Call("hasProperty", <<obj, key>>, Did(hasProperty(obj, key), obj, FALSE))

CallHasProperties ==
    /\ Idle
    /\ \E obj \in ObjectInputs, keys \in KeyLists :
        Call("hasProperties", <<obj, keys>>, Did(hasProperties(obj, keys), obj, FALSE))

CallHasPropertyValue ==
    /\ Idle
    /\ \E obj \in ObjectInputs, key \in KeyInputs, value \in ObjectValues :
        Call("hasPropertyValue", <<obj, key, value>>,
             Did(hasPropertyValue(obj, key, value), obj, FALSE))

CallHasPropertiesWithValue ==
    /\ Idle
    /\ \E obj \in ObjectInputs, propValues \in ObjectInputs :
        Call("hasPropertiesWithValue", <<obj, propValues>>,
             Did(hasPropertiesWithValue(obj, propValues), obj, FALSE))

\* mapToCssVars declares the one parameter obj: a second argument of a call
\* is not read.
CallMapToCssVars ==
    /\ Idle
    /\ \E obj \in ObjectInputs, prefix \in Prefixes :
        Call("mapToCssVars", <<obj, prefix>>, Did(mapToCssVars(obj), obj, FALSE))

\* merge reads its arguments and assigns only to the object it creates;
\* when target is null or undefined, or one argument is no object, the value
\* returned is source itself.
CallMerge ==
    /\ Idle
    /\ \E target \in MergeInputs, source \in MergeInputs :
        Call("merge", <<target, source>>,
             Did(merge(target, source), target,
                 isNullish(target) \/ ~isObject(target) \/ ~isObject(source)))

NextObjects ==
    \/ CallHasProperty
    \/ CallHasProperties
    \/ CallHasPropertyValue
    \/ CallHasPropertiesWithValue
    \/ CallMapToCssVars
    \/ CallMerge

SpecObjects == Init /\ [][NextObjects]_vars

(***************************************************************************)
(* Calls of the functions of the strings module.                           *)
(***************************************************************************)
MaxStrLen == 3

StringChars == {"a", "B", "_", "-", " ", ",", "/"}

Strings == {Str(s) : s \in SeqsUpTo(StringChars, MaxStrLen)}

\* A number, null, undefined, an array and an object, and NaN and a boolean.
NonStrings ==
    {Num(1), Null, Undefined, Arr(<< >>), Arr(<<Str(<<",">>)>>), Obj(<< >>), O1(KA, Num(1)),
     NaN, Bool(TRUE)}

StringInputs == Strings \cup NonStrings

\* camelCase identifiers: letters and digits after a lowercase first letter.
CamelChars == {"a", "b", "B", "C", "1"}

CamelStrings ==
    {Str(s) : s \in {t \in SeqsUpTo(CamelChars, MaxStrLen + 1) : Len(t) > 0 /\ IsLower(t[1])}}

Delimiters == {Str(<<"-">>), Str(<<"a">>), Str(<<",", " ">>)}

\* The markers of textBetween: the delimiters, and markers of two characters
\* of which one is special in a regular expression.
Markers == Delimiters \cup {Str(<<"/">>), Str(<<"a", ".">>), Str(<<"(", "a">>)}

Flags == {Undefined, Bool(TRUE), Bool(FALSE)}

\* The functions of one string argument.
Apply1(f, str) ==
    CASE f = "normalize" -> normalize(str)
      [] f = "removeTrailingSlash" -> removeTrailingSlash(str)
      [] f = "uppercase" -> uppercase(str)
      [] f = "lowercase" -> lowercase(str)
      [] f = "capitalize" -> capitalize(str)
      [] f = "capitalizeAll" -> capitalizeAll(str)
      [] f = "toSlug" -> toSlug(str)
      [] f = "toSnakeCase" -> toSnakeCase(str)
      [] f = "toKebabCase" -> toKebabCase(str)
      [] f = "toCamelCase" -> toCamelCase(str)
      [] f = "toPascalCase" -> toPascalCase(str)
      [] f = "camelToSnake" -> camelToSnake(str)
      [] f = "camelToKebab" -> camelToKebab(str)
      [] f = "isCommaSepareted" -> isCommaSepareted(str)
      [] f = "toCommaSepareted" -> toCommaSepareted(str)

StringOps1 ==
    {"normalize", "removeTrailingSlash", "uppercase", "lowercase", "capitalize",
     "capitalizeAll", "toSlug", "toSnakeCase", "toKebabCase", "toCamelCase", "toPascalCase",
     "camelToSnake", "camelToKebab", "isCommaSepareted", "toCommaSepareted"}

CallString1 ==
    /\ Idle
    /\ \E f \in StringOps1, str \in StringInputs \cup CamelStrings :
        Call(f, <<str>>, Did(Apply1(f, str), str, FALSE))

CallToTitle ==
    /\ Idle
    /\ \E str \in StringInputs, flag \in Flags :
        Call("toTitle", <<str, flag>>, Did(toTitle(str, flag), str, FALSE))

CallTextBetween ==
    /\ Idle
    /\ \E str \in StringInputs, startsWith \in Markers, endsWith \in Markers :
        Call("textBetween", <<str, startsWith, endsWith>>,
             Did(textBetween(str, startsWith, endsWith), str, FALSE))

CallRemoveFirstOccurrence ==
    /\ Idle
    /\ \E str \in StringInputs, searchstr \in Delimiters \cup {Num(1)}, trim \in Flags :
        Call("removeFirstOccurrence", <<str, searchstr, trim>>,
             Did(removeFirstOccurrence(str, searchstr, trim), str, FALSE))

NextStrings ==
    \/ CallString1
    \/ CallToTitle
    \/ CallTextBetween
    \/ CallRemoveFirstOccurrence

SpecStrings == Init /\ [][NextStrings]_vars

(***************************************************************************)
(* Calls of the functions of the urls module.                              *)
(***************************************************************************)
BaseURLs == {Str(<< >>), Str(<<" ", " ">>), Str(<<"/">>), Str(<<"h">>), Num(10), Null}

Artifacts == {Undefined, Str(<< >>), Str(<<"p", "a", "g", "e", "s">>), Num(1)}

Pathnames == {Str(<<"a", "b", "o", "u", "t">>), Str(<<"/", "p", "o", "s", "t", "s", "/", "a", "/">>), Str(<<"a", "/", "b">>), Num(1), Undefined}

\* A missing filename, '', a name, and values that are not strings.
Filenames ==
    {Undefined, Str(<< >>), Str(<<"c", ".", "p", "n", "g">>), Null, Num(10), Bool(TRUE), Arr(<<Str(<<"c", ".", "p", "n", "g">>)>>),
     O1(KA, Num(1))}

CallDefaultImage ==
    /\ Idle
    /\ \E baseURL \in BaseURLs, folder \in Artifacts, filename \in Filenames :
        Call("defaultImage", <<baseURL, folder, filename>>,
             Did(defaultImage(baseURL, folder, filename), baseURL, FALSE))

CallMakeImagePath ==
    /\ Idle
    /\ \E baseURL \in BaseURLs, artifact \in Artifacts, pathname \in Pathnames,
          filename \in Filenames :
        Call("makeImagePath", <<baseURL, artifact, pathname, filename>>,
             Did(makeImagePath(baseURL, artifact, pathname, filename), baseURL, FALSE))

NextUrls ==
    \/ CallDefaultImage
    \/ CallMakeImagePath

SpecUrls == Init /\ [][NextUrls]_vars

(***************************************************************************)
(* A ScreenBreakpointChecker: its construction, its setters and its        *)
(* methods, in any order after the construction.                           *)
(***************************************************************************)
\* Widths at and around the limits of the breakpoints.
Widths ==
    {Num(n) : n \in {0, 319, 320, 550, 639, 640, 800, 1024, 1536, 2000}}

\* The screens of the tests, overlapping ranges, and none.
ScreenConfigs ==
    {_defaultBreakpoints,
     Obj(<< <<XS, Range(<<"0">>, <<"5", "0", "0">>)>>,
            <<SM, Range(<<"6", "0", "0">>, <<"9", "5", "9">>)>>,
            <<MD, Range(<<"9", "6", "0">>, <<"1", "2", "7", "9">>)>> >>),
     Obj(<< <<MD, Range(Px(320), Px(1023))>>, <<XS, Range(Px(320), Px(639))>>,
            <<LG, OpenRange(Px(600))>> >>),
     Obj(<< >>)}

Sizes == {Num(500), Num(1024)}

\* A method call on the checker: the result is recorded and the checker
\* becomes next.
CheckerCall(name, a, result, next) ==
    /\ op' = name
    /\ args' = a
    /\ res' = Plain(result)
    /\ post' = Undefined
    /\ alias' = FALSE
    /\ checker' = next
    /\ UNCHANGED <<manager, dom, history>>

Construct ==
    /\ ~checker.constructed
    /\ \E screens \in ScreenConfigs \cup {Undefined},
          mobileSize \in {Undefined, Num(0), Num(500)},
          desktopSize \in {Undefined, Num(1200)} :
        CheckerCall("constructor", <<screens, mobileSize, desktopSize>>, Undefined,
                    NewChecker(screens, mobileSize, desktopSize))

SetScreens ==
    /\ checker.constructed
    /\ \E value \in ScreenConfigs :
        CheckerCall("screens", <<value>>, Undefined, [checker EXCEPT !.breakpoints = value])

SetMobileSize ==
    /\ checker.constructed
    /\ \E value \in Sizes :
        CheckerCall("mobileSize", <<value>>, Undefined, [checker EXCEPT !.mobile = value])

SetDesktopSize ==
    /\ checker.constructed
    /\ \E value \in Sizes :
        CheckerCall("desktopSize", <<value>>, Undefined, [checker EXCEPT !.desktop = value])

CallDeviceClass ==
    /\ checker.constructed
    /\ \E width \in Widths :
        \/ CheckerCall("isMobile", <<width>>, Bool(isMobile(checker, width)), checker)
        \/ CheckerCall("isTablet", <<width>>, Bool(isTablet(checker, width)), checker)
        \/ CheckerCall("isDesktop", <<width>>, Bool(isDesktop(checker, width)), checker)

CallIsBreakpoint ==
    /\ checker.constructed
    /\ \E width \in Widths, breakpoint \in {XS, MD, XXL} :
        CheckerCall("isBreakpoint", <<width, Str(breakpoint)>>,
                    Bool(isBreakpoint(checker, width, breakpoint)), checker)

CallNamedScreen ==
    /\ checker.constructed
    /\ \E width \in Widths, i \in 1..Len(NamedScreens) :
        CheckerCall(NamedScreens[i][1], <<width>>,
                    Bool(isNamedScreen(checker, width, NamedScreens[i][2])), checker)

CallGetBreakpointName ==
    /\ checker.constructed
    /\ \E width \in Widths :
        CheckerCall("getBreakpointName", <<width>>, getBreakpointName(checker, width), checker)

NextScreen ==
    \/ Construct
    \/ SetScreens
    \/ SetMobileSize
    \/ SetDesktopSize
    \/ CallDeviceClass
    \/ CallIsBreakpoint
    \/ CallNamedScreen
    \/ CallGetBreakpointName

SpecScreen == Init /\ [][NextScreen]_vars

(***************************************************************************)
(* A ComponentFocusManager: its construction, the assignment of items, run *)
(* and the focus methods, and the resolution of applyDOMChangesFn.         *)
(***************************************************************************)
MaxRuns == 2
MaxPending == 2

ItemLists ==
    {<<Elem("e1"), Elem("e2"), Elem("e3")>>, <<Elem("e1"), Elem("e4"), Elem("e3")>>,
     <<Elem("e2")>>}

OtherItemLists == {<<Elem("e4"), Elem("e3")>>}

CurrentItems == {Elem(e) : e \in Elements}

ComponentIds == {Undefined, Str(OtherId)}

FirstChars == {Str(<<"A">>), Str(<<"z">>), Str(<<"a", "b">>)}

\* A call on the manager: the result is recorded, and the manager, the
\* document and the history become the given ones.
ManagerCall(name, a, result, nextManager, nextDocument, nextHistory) ==
    /\ op' = name
    /\ args' = a
    /\ res' = result
    /\ post' = Undefined
    /\ alias' = FALSE
    /\ manager' = nextManager
    /\ dom' = nextDocument
    /\ history' = nextHistory
    /\ UNCHANGED checker

\* With the default applyDOMChangesFn the promise resolves before anything
\* else can run, so the focus() calls of the call happen with it, in the
\* order of the items; with another one they wait for Settle.
AfterCall(document) ==
    IF manager.applyDOMChangesFn = "default" /\ Len(document.pending) > 0
    THEN [document EXCEPT !.focused = document.pending[Len(document.pending)],
                          !.pending = << >>]
    ELSE document

\* A focus method was called and did what focused says.
FocusCall(name, a, focused) ==
    ManagerCall(name, a, focused.result, manager, AfterCall(focused.document),
                IF Truthy(focused.item) THEN [history EXCEPT !.target = focused.item]
                ELSE history)

ConstructManager ==
    /\ ~manager.constructed
    /\ ManagerCall("ComponentFocusManager", <<Str(OwnId)>>, Plain(Undefined),
                   NewManager(OwnId), dom, history)

\* focusManager.items = { componentId: list }
SetItems ==
    /\ manager.constructed
    /\ \E list \in ItemLists :
        ManagerCall("items", <<Arr(list)>>, Plain(Undefined),
                    [manager EXCEPT
                        !.items = [i \in Ids |-> IF i = OwnId THEN Arr(list) ELSE Undefined]],
                    dom, [history EXCEPT !.target = Undefined])

\* The items, the first item and the last item of a second component are
\* stored through the getters: focusManager.items[cId] = list,
\* focusManager.firstItem[cId] = list[0], focusManager.lastItem[cId] = the
\* last one.
RegisterComponent ==
    /\ manager.constructed
    /\ \E list \in OtherItemLists :
        ManagerCall("register", <<Str(OtherId), Arr(list)>>, Plain(Undefined),
                    [manager EXCEPT !.items[OtherId] = Arr(list),
                                    !.firstItem[OtherId] = list[1],
                                    !.lastItem[OtherId] = list[Len(list)]],
                    dom, history)

Run ==
    /\ manager.constructed
    /\ history.runs < MaxRuns
    /\ ManagerCall("run", << >>, Plain(Undefined), run(manager), dom,
                   [ranOn |-> manager.items[OwnId], runs |-> history.runs + 1,
                    target |-> Undefined])

SetApplyDOMChangesFn ==
    /\ manager.constructed
    /\ dom.pending = << >>
    /\ \E value \in {"default", "custom"} :
        ManagerCall("applyDOMChangesFn", <<Str(<<value>>)>>, Plain(Undefined),
                    [manager EXCEPT !.applyDOMChangesFn = value], dom, history)

CallSetFocusToFirstItem ==
    /\ manager.constructed
    /\ Len(dom.pending) < MaxPending
    /\ \E cId \in ComponentIds :
        FocusCall("setFocusToFirstItem", <<cId>>, setFocusToFirstItem(manager, dom, cId))

CallSetFocusToLastItem ==
    /\ manager.constructed
    /\ Len(dom.pending) < MaxPending
    /\ \E cId \in ComponentIds :
        FocusCall("setFocusToLastItem", <<cId>>, setFocusToLastItem(manager, dom, cId))

CallSetFocusToPreviousItem ==
    /\ manager.constructed
    /\ Len(dom.pending) < MaxPending
    /\ \E currentItem \in CurrentItems, cId \in ComponentIds :
        FocusCall("setFocusToPreviousItem", <<currentItem, cId>>,
                  setFocusToPreviousItem(manager, dom, currentItem, cId))

CallSetFocusToNextItem ==
    /\ manager.constructed
    /\ Len(dom.pending) < MaxPending
    /\ \E currentItem \in CurrentItems, cId \in ComponentIds :
        FocusCall("setFocusToNextItem", <<currentItem, cId>>,
                  setFocusToNextItem(manager, dom, currentItem, cId))

CallSetFocusByFirstChar ==
    /\ manager.constructed
    /\ Len(dom.pending) < MaxPending
    /\ \E currentItem \in CurrentItems, c \in FirstChars :
        FocusCall("setFocusByFirstChar", <<currentItem, c>>,
                  setFocusByFirstChar(manager, dom, currentItem, c))

\* The applyDOMChangesFn promise of one of the waiting items resolves and
\* the item receives focus().
Settle ==
    /\ Len(dom.pending) > 0
    /\ \E k \in 1..Len(dom.pending) :
        ManagerCall("focus", <<dom.pending[k]>>, Plain(Undefined), manager,
                    [dom EXCEPT !.focused = dom.pending[k],
                                !.pending = SubSeq(@, 1, k - 1) \o SubSeq(@, k + 1, Len(@))],
                    history)

\* The manager with the applyDOMChangesFn it is constructed with.
NextFocus ==
    \/ ConstructManager
    \/ SetItems
    \/ Run
    \/ CallSetFocusToFirstItem
    \/ CallSetFocusToLastItem
    \/ CallSetFocusToPreviousItem
    \/ CallSetFocusToNextItem
    \/ CallSetFocusByFirstChar

SpecFocus == Init /\ [][NextFocus]_vars

\* The manager holding the items of a second component.
NextFocusComponents ==
    \/ ConstructManager
    \/ SetItems
    \/ RegisterComponent
    \/ Run
    \/ CallSetFocusToFirstItem
    \/ CallSetFocusToLastItem

SpecFocusComponents == Init /\ [][NextFocusComponents]_vars

\* The manager with an applyDOMChangesFn of the caller, whose promises
\* resolve when the caller's work is done: focus calls overlap.
NextFocusAsync ==
    \/ ConstructManager
    \/ SetItems
    \/ Run
    \/ SetApplyDOMChangesFn
    \/ CallSetFocusToFirstItem
    \/ CallSetFocusToLastItem
    \/ Settle

SpecFocusAsync == Init /\ [][NextFocusAsync]_vars

(***************************************************************************)
(* Properties of the collection functions.                                 *)
(***************************************************************************)
CollectionResultOps ==
    {"sortBy", "groupedByOne", "groupedByMany", "shuffle", "shuffleByProperty",
     "pickRandom", "uniq"}

\* How often x occurs in a list, and whether two lists hold the same
\* elements with the same multiplicities.
Count(list, x) == Cardinality({i \in 1..Len(list) : list[i] = x})

IsPermutation(a, b) ==
    /\ Len(a) = Len(b)
    /\ \A i \in 1..Len(a) : Count(a, a[i]) = Count(b, a[i])

\* A non-empty string, a non-empty plain object, a number, null or undefined.
NotAnArrayValue(v) ==
    \/ v \in {Null, Undefined}
    \/ v.t = "number"
    \/ (v.t = "string" /\ Len(v.s) > 0)
    \/ (v.t = "object" /\ Len(v.o) > 0)

\* C3: a Result-returning collection function called with a first argument
\* that is not an array (a non-empty string, a non-empty plain object, a
\* number, null or undefined) returns a Failure and does not throw.
C3_NonArrayGivesFailure ==
    (op \in CollectionResultOps /\ NotAnArrayValue(args[1])) => res.kind = "err"

\* The name between the brackets of the messages of a function.
QualifiedName(f) ==
    CASE f = "sortBy" -> "collections.sortBy"
      [] f = "groupedByOne" -> "collections.groupedByOne"
      [] f = "groupedByMany" -> "collections.groupedByMany"
      [] f = "shuffle" -> "collections.shuffle"
      [] f = "shuffleByProperty" -> "collections.shuffleByProperty"
      [] f = "pickRandom" -> "collections.pickRandom"
      [] f = "uniq" -> "collections.uniq"
      [] OTHER -> "?"

\* C4: the message of every Failure a collection function returns starts
\* with "[collections.<function>] ", naming the function that was called.
C4_FailureNamesItsFunction ==
    (op \in CollectionResultOps /\ res.kind = "err") => res.ns = QualifiedName(op)

\* An array of plain objects.
IsArrayOfObjects(v) == v.t = "array" /\ \A i \in 1..Len(v.a) : v.a[i].t = "object"

\* The element does not have the property the dotted path addresses.
RECURSIVE LacksPath(_, _, _)
LacksPath(v, parts, i) ==
    IF i > Len(parts) THEN FALSE
    ELSE IF v.t # "object" THEN TRUE
    ELSE IF ~HasIn(parts[i], v) THEN TRUE
    ELSE LacksPath(Get(v, parts[i]), parts, i + 1)

\* C5: sortBy never returns a Success when the array is empty or absent, or
\* when an element of a non-empty array (of any length) lacks the property:
\* it returns the Failure "[collections.sortBy] Input must be an array and
\* cannot be empty" in the first case and raises "<key> is not a property of
\* the object!" in the second.
C5_SortByFailsOnMissingProperty ==
    op = "sortBy" =>
        /\ args[1] \in {Undefined, Null, Arr(<< >>)} =>
              res = Err("collections.sortBy", "Input must be an array and cannot be empty")
        /\ ( /\ IsArrayOfObjects(args[1])
             /\ Len(args[1].a) > 0
             /\ isString(args[2])
             /\ \E i \in 1..Len(args[1].a) :
                    LacksPath(args[1].a[i], Split(args[2].s, DOT), 1) ) =>
              res = ThrowAbout("Error", args[2].s, "% is not a property of the object!")

\* The values found at the path are all numbers or all strings.
ValuesAt(v, path) == [i \in 1..Len(v.a) |-> getPropertyValue(v.a[i], path)]

Comparable(vals) ==
    \/ \A i \in 1..Len(vals) : vals[i].t = "number"
    \/ \A i \in 1..Len(vals) : vals[i].t = "string"

\* x <= y for two numbers or two strings.
LessOrEqual(x, y) == IF x.t = "number" THEN x.n <= y.n ELSE x = y \/ StrLess(x.s, y.s)

SortablePrecondition ==
    /\ op = "sortBy"
    /\ IsArrayOfObjects(args[1])
    /\ Len(args[1].a) > 0
    /\ isString(args[2])
    /\ Comparable(ValuesAt(args[1], args[2]))

\* C6: for a non-empty array whose elements all hold numbers, or all hold
\* strings, at the dotted path, sortBy returns a Success whose array is a
\* permutation of the input with the key values in non-decreasing order for
\* 'asc' and for no order given, and in non-increasing order for 'desc'.
C6_SortByOrders ==
    SortablePrecondition =>
        /\ res.kind = "ok"
        /\ IsPermutation(res.value.a, args[1].a)
        /\ LET vals == ValuesAt(res.value, args[2])
           IN \A i, j \in 1..Len(vals) :
                i < j => IF args[3] = DESC
                         THEN LessOrEqual(vals[j], vals[i])
                         ELSE LessOrEqual(vals[i], vals[j])

\* A descending sort of MaxLen elements by a nested path that had to move
\* elements.
C6_Witness ==
    /\ SortablePrecondition
    /\ args[2] = Str(KAB)
    /\ args[3] = DESC
    /\ Len(args[1].a) = MaxLen
    /\ res.kind = "ok"
    /\ res.value # args[1]

\* C7: sortBy does not mutate its input: after the call the array holds the
\* same elements in the same order, and the array returned is another array.
C7_SortByLeavesInput ==
    op = "sortBy" => (post = args[1] /\ (res.kind = "ok" => ~alias))

\* C8: shuffle and pickRandom leave the input array unmodified, whatever
\* the random choices.
C8_ShuffleLeavesInput ==
    op \in {"shuffle", "pickRandom"} => post = args[1]

\* C9: shuffle and shuffleByProperty return a Failure when the array holds a
\* null or undefined element (shuffleByProperty also when the key value of
\* an element is null or undefined); otherwise, for every outcome of the
\* random choices, a Success whose array is a permutation of the input.
C9_ShuffleIsPermutation ==
    (op \in {"shuffle", "shuffleByProperty"} /\ args[1].t = "array") =>
        LET a == args[1].a
            rejected ==
                \E i \in 1..Len(a) :
                    \/ a[i] \in {Null, Undefined}
                    \/ (op = "shuffleByProperty"
                            /\ getPropertyValue(a[i], args[2]) \in {Null, Undefined})
        IN IF rejected
           THEN res.kind = "err"
           ELSE res.kind = "ok" /\ res.value.t = "array" /\ IsPermutation(res.value.a, a)

\* A shuffle of distinct elements that changed their order.
C9_Witness ==
    /\ op = "shuffle"
    /\ res.kind = "ok"
    /\ Len(args[1].a) = MaxLen
    /\ \A i, j \in 1..MaxLen : i # j => args[1].a[i] # args[1].a[j]
    /\ res.value.a[1] = args[1].a[MaxLen]

\* An array of numbers, of strings or of booleans.
Homogeneous(v) ==
    /\ v.t = "array"
    /\ \/ \A i \in 1..Len(v.a) : v.a[i].t = "number"
       \/ \A i \in 1..Len(v.a) : v.a[i].t = "string"
       \/ \A i \in 1..Len(v.a) : v.a[i].t = "boolean"

\* The picked values come from distinct positions of the array.
FromDistinctPositions(picked, a) ==
    \A i \in 1..Len(picked) : Count(picked, picked[i]) <= Count(a, picked[i])

\* C10 as stated: for an array of numbers, of strings or of booleans,
\* pickRandom(arr, 1) and pickRandom(arr) return a Success holding an
\* element of arr, and pickRandom(arr, quantity) with any other numeric
\* quantity a Success holding exactly quantity elements taken from distinct
\* positions of arr.
C10_PickRandomAnyQuantity ==
    (op = "pickRandom" /\ Homogeneous(args[1]) /\ args[2].t \in {"number", "undefined"}) =>
        /\ res.kind = "ok"
        /\ IF args[2] \in {Num(1), Undefined}
           THEN \E i \in 1..Len(args[1].a) : res.value = args[1].a[i]
           ELSE /\ res.value.t = "array"
                /\ Len(res.value.a) = args[2].n
                /\ FromDistinctPositions(res.value.a, args[1].a)

\* C10 amended: the array is not empty, and a quantity other than 1 is an
\* integer between 0 and the length of the array.
C10_PickRandomWithinLength ==
    ( /\ op = "pickRandom"
      /\ Homogeneous(args[1])
      /\ Len(args[1].a) > 0
      /\ \/ args[2] = Undefined
         \/ (args[2].t = "number" /\ args[2].n >= 0 /\ args[2].n <= Len(args[1].a)) ) =>
        /\ res.kind = "ok"
        /\ IF args[2] \in {Num(1), Undefined}
           THEN \E i \in 1..Len(args[1].a) : res.value = args[1].a[i]
           ELSE /\ res.value.t = "array"
                /\ Len(res.value.a) = args[2].n
                /\ FromDistinctPositions(res.value.a, args[1].a)

\* Two elements picked out of MaxLen distinct ones.
C10_Witness ==
    /\ op = "pickRandom"
    /\ Homogeneous(args[1])
    /\ Len(args[1].a) = MaxLen
    /\ \A i, j \in 1..MaxLen : i # j => args[1].a[i] # args[1].a[j]
    /\ args[2] = Num(2)
    /\ res.kind = "ok"
    /\ res.value.t = "array"
    /\ Len(res.value.a) = 2
    /\ res.value.a # SubSeq(args[1].a, 1, 2)

\* An array whose elements are all of type number (NaN included), all
\* strings or all booleans.
OfOneType(v) ==
    /\ v.t = "array"
    /\ \/ \A i \in 1..Len(v.a) : TypeOf(v.a[i]) = "number"
       \/ \A i \in 1..Len(v.a) : TypeOf(v.a[i]) = "string"
       \/ \A i \in 1..Len(v.a) : TypeOf(v.a[i]) = "boolean"

\* v is one of the elements of the list.
IsElement(v, a) == \E i \in 1..Len(a) : a[i] = v

\* C11: for an array of numbers, of strings or of booleans, contains(arr, v)
\* with a single value v is true exactly when v is an element of arr, and
\* contains(arr, vs) with an array vs exactly when every element of vs is an
\* element of arr; for a value that is no array and for an array of mixed
\* types it is false.
C11_ContainsIsMembership ==
    op = "contains" =>
        IF OfOneType(args[1])
        THEN IF args[2].t = "array"
             THEN res = Plain(Bool(\A i \in 1..Len(args[2].a) :
                                      IsElement(args[2].a[i], args[1].a)))
             ELSE res = Plain(Bool(IsElement(args[2], args[1].a)))
        ELSE res = Plain(Bool(FALSE))


\* The values of an item at the key: the elements of an array found there,
\* or the one value found there.
KeyValues(item, key) ==
    LET v == getPropertyValue(item, key)
    IN IF v.t = "array" THEN v.a ELSE <<v>>

\* The items of the first n that belong to the group named g, in input
\* order, each once per key value whose string form is g.
RECURSIVE ItemsOfGroup(_, _, _, _)
ItemsOfGroup(a, key, g, n) ==
    IF n = 0 THEN << >>
    ELSE LET vals == KeyValues(a[n], key)
             times == Cardinality({j \in 1..Len(vals) : ToStr(vals[j]) = g})
         IN ItemsOfGroup(a, key, g, n - 1) \o [c \in 1..times |-> a[n]]

GroupName(group) == Get(group, GROUP).s
GroupItems(group) == Get(group, ITEMS).a

GroupedByManyCase ==
    /\ op = "groupedByMany"
    /\ IsArrayOfObjects(args[1])
    /\ Len(args[1].a) > 0
    /\ isString(args[2])
    /\ args[3] = Undefined

\* C12: groupedByMany(arr, key) returns a Success with one group for every
\* string form of a key value of an item and no other group; the group
\* named g holds exactly the items that have g among the string forms of
\* their key values (the elements of the array at key, or the one value
\* there), in their input order, so an item can be in several groups.
C12_GroupedByManyGroups ==
    GroupedByManyCase =>
        /\ res.kind = "ok"
        /\ LET a == args[1].a
               groups == res.value.a
           IN /\ \A n \in 1..Len(a) :
                    \A j \in 1..Len(KeyValues(a[n], args[2])) :
                        \E i \in 1..Len(groups) :
                            GroupName(groups[i]) = ToStr(KeyValues(a[n], args[2])[j])
              /\ \A i, j \in 1..Len(groups) :
                    i # j => GroupName(groups[i]) # GroupName(groups[j])
              /\ \A i \in 1..Len(groups) :
                    /\ GroupItems(groups[i]) # << >>
                    /\ GroupItems(groups[i]) =
                          ItemsOfGroup(a, args[2], GroupName(groups[i]), Len(a))


\* The value found at the dotted key of an item.
ValueAtKey(item, key) == ReducePath(item, Split(key.s, DOT), 1)

\* The items of the first n whose value at the key is v, in input order.
RECURSIVE ItemsWithValue(_, _, _, _)
ItemsWithValue(a, key, v, n) ==
    IF n = 0 THEN << >>
    ELSE ItemsWithValue(a, key, v, n - 1)
            \o (IF ValueAtKey(a[n], key) = v THEN <<a[n]>> ELSE << >>)

GroupedByOneCase ==
    /\ op = "groupedByOne"
    /\ IsArrayOfObjects(args[1])
    /\ Len(args[1].a) > 0
    /\ isString(args[2])
    /\ args[3] = Undefined

\* C13: groupedByOne(arr, key) returns a Success with exactly one group per
\* distinct value found at key among the items; the group of a value is
\* named by its string form and holds exactly the items with that value, in
\* their input order, so every item appears exactly once.
C13_GroupedByOneGroups ==
    GroupedByOneCase =>
        /\ res.kind = "ok"
        /\ LET a == args[1].a
               groups == res.value.a
               values == {ValueAtKey(a[n], args[2]) : n \in 1..Len(a)}
           IN /\ Len(groups) = Cardinality(values)
              /\ \A v \in values :
                    \E i \in 1..Len(groups) :
                        /\ GroupName(groups[i]) = ToStr(v)
                        /\ GroupItems(groups[i]) = ItemsWithValue(a, args[2], v, Len(a))



(***************************************************************************)
(* Properties of the type guards of the is module.                         *)
(***************************************************************************)
\* C16 as stated: isDefined(v) is true exactly when v is not null, not
\* undefined and not NaN, for every value v, arrays included whatever their
\* elements are.
C16_IsDefinedWhateverTheElements ==
    op = "isDefined" => res = Plain(Bool(args[1] \notin {Null, Undefined, NaN}))

\* C16 amended: for a value that is no array isDefined(v) is true exactly
\* when v is not null, not undefined and not NaN; for an array it is true
\* exactly when none of its elements is null or undefined.
C16_IsDefinedLooksIntoArrays ==
    op = "isDefined" =>
        res = Plain(Bool(IF args[1].t = "array"
                         THEN \A i \in 1..Len(args[1].a) :
                                args[1].a[i] \notin {Null, Undefined}
                         ELSE args[1] \notin {Null, Undefined, NaN}))

\* isDefined said no to an array that holds a defined value and a null.
C16_Witness ==
    /\ op = "isDefined"
    /\ args[1].t = "array"
    /\ \E i, j \in 1..Len(args[1].a) : args[1].a[i] = Null /\ args[1].a[j] = Num(0)
    /\ res = Plain(Bool(FALSE))


(***************************************************************************)
(* Properties of the functions of the objects module.                      *)
(***************************************************************************)
\* C2: no function discards the Failure of a helper it calls: hasProperties
\* returns a Failure when hasProperty returns one for some key of the list;
\* hasPropertyValue and hasPropertiesWithValue return the Failure hasProperty
\* returned.
C2_HelperFailurePropagates ==
    /\ (op = "hasProperties" /\ args[2].t = "array") =>
          ((\E i \in 1..Len(args[2].a) : hasProperty(args[1], args[2].a[i]).kind = "err")
              => res.kind = "err")
    /\ (op = "hasPropertyValue" /\ hasProperty(args[1], args[2]).kind = "err") =>
          res = hasProperty(args[1], args[2])
    /\ (op = "hasPropertiesWithValue" /\ ~isNullish(args[2])) =>
          LET entries == Entries(args[2])
          IN (\E i \in 1..Len(entries) : hasProperty(args[1], Str(entries[i][1])).kind = "err")
                => (\E i \in 1..Len(entries) : res = hasProperty(args[1], Str(entries[i][1])))

\* The value of a key of a plain object, undefined when it has no such key.
ValueOrUndefined(obj, key) == IF key \in Keys(obj) THEN ValueAt(obj, key) ELSE Undefined

\* The merge of two plain objects as it is described: the keys of both; two
\* object values merged in the same way, two array values concatenated,
\* otherwise the value of source when it is defined and else the value of
\* target.
RECURSIVE MergedAsDescribed(_, _)
MergedAsDescribed(t, s) ==
    LET keys == SetOrder(ObjectKeys(t) \o ObjectKeys(s), 1, << >>)
        value(key) ==
            LET tv == ValueOrUndefined(t, key)
                sv == ValueOrUndefined(s, key)
            IN IF tv.t = "object" /\ sv.t = "object" THEN MergedAsDescribed(tv, sv)
               ELSE IF tv.t = "array" /\ sv.t = "array" THEN Arr(tv.a \o sv.a)
               ELSE IF sv # Undefined THEN sv
               ELSE tv
    IN Obj([i \in 1..Len(keys) |-> <<keys[i], value(keys[i])>>])

\* C14: merge(target, source) on plain objects returns the object with the
\* keys of both in which two object values are merged recursively, two array
\* values are target's elements followed by source's, otherwise a value
\* defined in source replaces target's and a key absent or undefined in
\* source keeps target's value; target is left as it was.
C14_MergeAsDescribed ==
    (op = "merge" /\ isPlainObject(args[1]) /\ isPlainObject(args[2])) =>
        /\ res = Plain(MergedAsDescribed(args[1], args[2]))
        /\ post = args[1]


\* "--<key>: <value>;" and, with a prefix, "--<prefix>-<key>: <value>;"
Declaration(prefix, key, value) ==
    <<"-", "-">> \o (IF prefix = Undefined THEN << >> ELSE prefix.s \o <<"-">>)
        \o key \o <<":", " ">> \o ToStr(value) \o <<";">>

\* C15: mapToCssVars(obj, prefix) on a plain object returns a Success
\* holding one declaration per entry of obj, in entry order and joined by
\* single spaces: "--<key>: <value>;" when no prefix is given and
\* "--<prefix>-<key>: <value>;" when one is.
C15_MapToCssVarsPrefix ==
    (op = "mapToCssVars" /\ isPlainObject(args[1])) =>
        res = Ok(Str(JoinStrings([i \in 1..Len(args[1].o) |->
                                     Declaration(args[2], args[1].o[i][1], args[1].o[i][2])],
                                 <<" ">>)))



(***************************************************************************)
(* Properties of the functions of the strings module.                      *)
(***************************************************************************)
StringOps == StringOps1 \cup {"toTitle", "textBetween", "removeFirstOccurrence"}

\* C1: every function of the strings module called with a first argument
\* that is not a string (a number, null, undefined, an array or an object)
\* returns a Failure - isCommaSepareted, which returns a boolean, returns
\* false - and never throws.
C1_NonStringGivesFailure ==
    (op \in StringOps /\ args[1].t \in {"number", "null", "undefined", "array", "object"}) =>
        IF op = "isCommaSepareted"
        THEN res = Plain(Bool(FALSE))
        ELSE res.kind = "err"

\* C17: capitalize is idempotent: for every string s, capitalize applied to
\* the value of capitalize(s) returns that same value.
C17_CapitalizeIdempotent ==
    (op = "capitalize" /\ isString(args[1])) =>
        /\ res.kind = "ok"
        /\ capitalize(res.value) = res

\* A string of ASCII letters and digits that starts with a lowercase letter.
IsCamelCase(v) ==
    /\ isString(v)
    /\ Len(v.s) > 0
    /\ IsLower(v.s[1])
    /\ \A i \in 1..Len(v.s) : IsAlnum(v.s[i])

\* C18: for every camelCase string x (ASCII letters and digits only, starting
\* with a lowercase letter), toCamelCase applied to the value of
\* camelToSnake(x) returns x.
C18_CamelSnakeRoundTrip ==
    (op = "camelToSnake" /\ IsCamelCase(args[1])) =>
        /\ res.kind = "ok"
        /\ toCamelCase(res.value) = Ok(args[1])

\* A camelCase string with an upper-case letter and a digit went to snake
\* case, gained an underscore, and came back unchanged.
C18_Witness ==
    /\ op = "camelToSnake"
    /\ IsCamelCase(args[1])
    /\ \E i \in 1..Len(args[1].s) : IsUpper(args[1].s[i])
    /\ \E i \in 1..Len(args[1].s) : IsDigit(args[1].s[i])
    /\ res.kind = "ok"
    /\ \E i \in 1..Len(res.value.s) : res.value.s[i] = "_"
    /\ res.value # args[1]
    /\ toCamelCase(res.value) = Ok(args[1])

\* The 0-based positions of s at which sub occurs.
Occurrences(s, sub) ==
    {p \in 0..(Len(s) - Len(sub)) : SubSeq(s, p + 1, p + Len(sub)) = sub}

\* The trimmed text between the first occurrence of start and the last
\* occurrence of end that follows it, or str when there is no such pair.
LiteralTextBetween(str, start, end) ==
    LET s == str.s
        from == IndexOf(s, start.s) + Len(start.s)
        ends == {q \in Occurrences(s, end.s) : q >= from}
    IN IF IndexOf(s, start.s) = -1 \/ ends = {} THEN Ok(str)
       ELSE LET q == CHOOSE q \in ends : \A r \in ends : r <= q
            IN Ok(Str(Trim(SubSeq(s, from + 1, q))))

\* C19: textBetween treats every regex metacharacter in its delimiters
\* literally, whatever the delimiters' length: for any start and end markers
\* it returns, without throwing, a Success holding the trimmed text between
\* the first occurrence of start and the last following occurrence of end,
\* or str unchanged when no such pair exists.
C19_TextBetweenLiteralDelimiters ==
    (op = "textBetween" /\ isString(args[1]) /\ isString(args[2]) /\ isString(args[3])) =>
        res = LiteralTextBetween(args[1], args[2], args[3])

(***************************************************************************)
(* Properties of the functions of the urls module.                         *)
(***************************************************************************)
\* An argument that was given: anything but undefined.
Supplied(v) == v # Undefined

\* C20: makeImagePath(baseURL, artifact, pathname, filename) returns the
\* Failure "[urls.makeImagePath] Expected string values for all parameters"
\* whenever any supplied argument, the filename included, is not a string,
\* and it falls back to defaultImage(baseURL) only when the filename is
\* missing or the empty string.
C20_MakeImagePathChecksEveryArgument ==
    op = "makeImagePath" =>
        /\ (\E i \in 1..4 : Supplied(args[i]) /\ ~isString(args[i])) =>
                res = ExpectedStrings("urls.makeImagePath")
        /\ (/\ res.kind = "ok"
            /\ res = defaultImage(args[1], Undefined, Undefined)) =>
                args[4] \in {Undefined, Str(<< >>)}

(***************************************************************************)
(* Properties of the ScreenBreakpointChecker.                              *)
(***************************************************************************)
\* The names of the configured screens in the order of their declaration.
DeclaredNames == [i \in 1..Len(checker.breakpoints.o) |-> checker.breakpoints.o[i][1]]

\* The range declared i-th contains the width: min <= width, and
\* width <= max when max is defined.
RangeContains(i, width) ==
    LET range == checker.breakpoints.o[i][2]
        min == parseInt(Get(range, MIN))
        max == Get(range, MAX)
    IN /\ min.t = "number"
       /\ min.n <= width.n
       /\ (max # Undefined => (parseInt(max).t = "number" /\ width.n <= parseInt(max).n))

ContainingRanges(width) == {i \in 1..Len(DeclaredNames) : RangeContains(i, width)}

NamedScreenCase ==
    /\ \E i \in 1..Len(NamedScreens) : NamedScreens[i][1] = op
    /\ checker.breakpoints = _defaultBreakpoints

NamedIndex == CHOOSE i \in 1..Len(NamedScreens) : NamedScreens[i][1] = op

\* C22 as stated: with the default screens, each named-size predicate returns
\* true if the width lies within that breakpoint's [min, max] range, and
\* false otherwise, for every non-negative integer width.
C22_NamedScreenIsRange ==
    NamedScreenCase => res = Plain(Bool(RangeContains(NamedIndex, args[1])))

\* C22 amended: with the default screens, each named-size predicate returns
\* true exactly when the width lies within that breakpoint's range, except
\* that isXSmallScreen is also true for the widths below every range.
C22_NamedScreenIsRangeOrFallback ==
    NamedScreenCase =>
        res = Plain(Bool(\/ RangeContains(NamedIndex, args[1])
                         \/ NamedIndex = 1 /\ ContainingRanges(args[1]) = {}))

\* isXSmallScreen answers true for a width below the range of xs.
C22_Witness ==
    /\ op = "isXSmallScreen"
    /\ checker.breakpoints = _defaultBreakpoints
    /\ ~RangeContains(1, args[1])
    /\ res = Plain(Bool(TRUE))

\* The number of the three device classes that answer true for a width.
DeviceClasses(width) ==
    Cardinality({c \in {"mobile", "tablet", "desktop"} :
                    CASE c = "mobile" -> isMobile(checker, width)
                      [] c = "tablet" -> isTablet(checker, width)
                      [] c = "desktop" -> isDesktop(checker, width)})

\* C30: in every state of a ScreenBreakpointChecker reachable through its
\* constructor and any sequence of mobileSize and desktopSize setter calls,
\* for every width exactly one of isMobile(width), isTablet(width) and
\* isDesktop(width) is true.
C30_DeviceClassesPartition ==
    checker.constructed => \A width \in Widths : DeviceClasses(width) = 1

(***************************************************************************)
(* Properties of the ComponentFocusManager.                                *)
(***************************************************************************)
\* The items, the first characters, the first item and the last item of the
\* manager's own component.
OwnItems == manager.items[manager.id].a
OwnFirstChars == manager.firstChars[manager.id].a
OwnFirstItem == manager.firstItem[manager.id]
OwnLastItem == manager.lastItem[manager.id]

\* C23: after every call to run(), whatever items were assigned before it
\* and however many times run() was called earlier, firstItem[id] is the
\* first element of items[id], lastItem[id] is its last element, and
\* firstChars[id] has one entry per item, the i-th being the lowercased first
\* character of the trimmed text of the i-th item.
C23_RunDescribesItems ==
    (op = "run" /\ Len(OwnItems) > 0) =>
        /\ OwnFirstItem = OwnItems[1]
        /\ OwnLastItem = OwnItems[Len(OwnItems)]
        /\ Len(OwnFirstChars) = Len(OwnItems)
        /\ \A i \in 1..Len(OwnItems) : OwnFirstChars[i] = menuItemContent(OwnItems[i])

\* The manager was initialised with one run() over the items it holds, and
\* there is at least one.
Initialised ==
    /\ manager.constructed
    /\ history.runs = 1
    /\ history.ranOn = manager.items[manager.id]
    /\ Len(OwnItems) > 0

\* A call of setFocusToNextItem or setFocusToPreviousItem, with no component
\* id, for an item of the initialised manager.
NeighbourCase ==
    /\ op \in {"setFocusToNextItem", "setFocusToPreviousItem"}
    /\ Initialised
    /\ args[2] = Undefined
    /\ indexOfItem(OwnItems, args[1]) >= 0

\* The item (i + step) mod n of the items, for the item at index i.
Neighbour(step) ==
    OwnItems[((indexOfItem(OwnItems, args[1]) + step + Len(OwnItems)) % Len(OwnItems)) + 1]

\* C24: on a manager initialised with run() over n distinct items, for the
\* item at index i, setFocusToNextItem returns and gives tabIndex 0 to the
\* item at index (i+1) mod n, and setFocusToPreviousItem returns and gives
\* tabIndex 0 to the item at index (i-1) mod n.
C24_NeighbourWraps ==
    NeighbourCase =>
        LET expected == Neighbour(IF op = "setFocusToNextItem" THEN 1 ELSE -1)
        IN /\ res = Plain(expected)
           /\ dom.tabIndex[expected.e] = 0

\* setFocusToNextItem for the last of three items returned the first one,
\* and setFocusToPreviousItem for the first of them the last one.
C24_Witness ==
    /\ NeighbourCase
    /\ Len(OwnItems) = 3
    /\ \/ /\ op = "setFocusToNextItem"
          /\ args[1] = OwnItems[3]
          /\ res = Plain(OwnItems[1])
          /\ dom.tabIndex[OwnItems[1].e] = 0
       \/ /\ op = "setFocusToPreviousItem"
          /\ args[1] = OwnItems[1]
          /\ res = Plain(OwnItems[3])
          /\ dom.tabIndex[OwnItems[3].e] = 0

\* The text of an item starts with the character c, compared without
\* regard to case.
StartsWith(item, c) ==
    /\ Len(textContent(item.e)) > 0
    /\ ToLowerChar(textContent(item.e)[1]) = ToLowerChar(c)

\* The items after the current item, then the items from the first one up to
\* and including the current item: the order in which a match is looked for.
SearchOrder ==
    LET n == Len(OwnItems)
        i == indexOfItem(OwnItems, args[1]) + 1
    IN SubSeq(OwnItems, i + 1, n) \o SubSeq(OwnItems, 1, i)

\* A call of setFocusByFirstChar for an item of the initialised manager.
FirstCharCase ==
    /\ op = "setFocusByFirstChar"
    /\ Initialised
    /\ indexOfItem(OwnItems, args[1]) >= 0

\* C25: setFocusByFirstChar(currentItem, c) with a single character c gives
\* tabIndex 0 to the first item after currentItem, wrapping around to the
\* beginning of the list, whose text starts with c compared
\* case-insensitively; when no item starts with c, or c is longer than one
\* character, no item's tabIndex changes.
C25_FocusByFirstChar ==
    [][FirstCharCase' =>
        LET c == args'[2].s
            matches == SelectSeq(SearchOrder', LAMBDA item : Len(c) = 1 /\ StartsWith(item, c[1]))
        IN IF Len(matches) > 0
           THEN dom'.tabIndex[matches[1].e] = 0
           ELSE dom'.tabIndex = dom.tabIndex]_vars

\* A call of setFocusToFirstItem or setFocusToLastItem with the id of a
\* second component whose items the manager holds.
OtherComponentCase ==
    /\ op \in {"setFocusToFirstItem", "setFocusToLastItem"}
    /\ args[1] = Str(OtherId)
    /\ manager.items[OtherId] # Undefined
    /\ Truthy(manager.firstItem[OtherId])
    /\ Truthy(manager.lastItem[OtherId])

\* C26: when the manager holds items for a second component id cId,
\* setFocusToFirstItem(cId) and setFocusToLastItem(cId) give tabIndex 0 to the
\* first (respectively last) item registered under cId and leave the
\* tabIndex of every item of the manager's own component unchanged.
C26_OtherComponentFocus ==
    [][OtherComponentCase' =>
        LET item == IF op' = "setFocusToFirstItem" THEN manager'.firstItem[OtherId]
                    ELSE manager'.lastItem[OtherId]
        IN /\ dom'.tabIndex[item.e] = 0
           /\ \A i \in 1..Len(OwnItems') :
                OwnItems'[i] # item => dom'.tabIndex[OwnItems'[i].e] = dom.tabIndex[OwnItems'[i].e]]_vars

\* The items of the manager's own component that have tabIndex 0.
TabStops == {i \in 1..Len(OwnItems) : dom.tabIndex[OwnItems[i].e] = 0}

\* C28: on a manager initialised with run() over a non-empty list of
\* distinct items, once a focus call has targeted an item, exactly one item
\* of items[id] has tabIndex 0, it is the target of the most recent call
\* that found a target, and every other item has tabIndex -1.
C28_RovingTabIndex ==
    (Initialised /\ history.target # Undefined) =>
        /\ Cardinality(TabStops) = 1
        /\ \A i \in TabStops : OwnItems[i] = history.target
        /\ \A i \in (1..Len(OwnItems)) \ TabStops : dom.tabIndex[OwnItems[i].e] = -1

\* A call that found no target came after one that had targeted the second
\* of three items, which is still the only one with tabIndex 0.
C28_Witness ==
    /\ Initialised
    /\ Len(OwnItems) = 3
    /\ op = "setFocusByFirstChar"
    /\ args[2] = Str(<<"z">>)
    /\ history.target = OwnItems[2]
    /\ TabStops = {2}

\* Two focus operations overlapped and both have completed: the items of
\* both were waiting for their applyDOMChangesFn promise together, and the
\* two promises resolved one after the other, in either order, the second
\* of them in the step that is ending.
OverlapCompleted ==
    /\ Initialised
    /\ history.target # Undefined
    /\ op = "focus"
    /\ dom.pending = << >>

\* C29: when two focus operations overlap, for every completion order of
\* the two applyDOMChangesFn promises, after both operations have completed
\* the item that last received focus() is the target of the later call and
\* is the single item with tabIndex 0.
C29_OverlappingFocusCalls ==
    [][(op = "focus" /\ OverlapCompleted') =>
            /\ dom'.focused = history'.target
            /\ TabStops' # {}
            /\ \A i \in TabStops' : OwnItems'[i] = dom'.focused]_vars

(***************************************************************************)
(* merge and null.                                                         *)
(***************************************************************************)
\* C27: merge(target, source) returns a value and never throws for every
\* pair of plain-object arguments whose property values are primitives (null
\* included), arrays or plain objects; when a key holds null in source and
\* an object or array in target, the result holds the source's null for
\* that key.
C27_MergeNeverThrows ==
    (op = "merge" /\ isPlainObject(args[1]) /\ isPlainObject(args[2])) =>
        /\ res.kind = "value"
        /\ \A key \in Keys(args[2]) :
            (/\ Get(args[2], key) = Null
             /\ Get(args[1], key).t \in {"object", "array"}) =>
                Get(res.value, key) = Null


====
